---- MODULE Spec2Model ----
(***************************************************************************)
(* corona-permit-sync: change detection and reconciliation core.           *)
(*                                                                         *)
(* The model follows the three sync drivers (violations, inspections,      *)
(* permits), the state tracker they diff against and upsert into, the      *)
(* violation -> ticket matcher and the review queue.  Every awaited call   *)
(* of the code (a database query, a call to the ticketing system or to the *)
(* classifier) is one step; the outcome of a call the program does not     *)
(* control (what the ticketing system answers, whether a query fails) is   *)
(* chosen nondeterministically among the outcomes the code handles.        *)
(***************************************************************************)
EXTENDS Integers, Sequences, FiniteSets, TLC

\* ------------------------------------------------------------------ bounds

\* Longest batch of records handed to a sync driver.
MaxBatch == 2

\* Number of sync runs in one behaviour (sync_log grows by one row per run).
MaxRuns == 2

\* Number of direct matcher invocations in the matcher-level specification.
MaxMatches == 2

\* Number of manual review resolutions in one behaviour.
MaxResolves == 1

\* Number of awaited calls (queries, API calls) that throw in one behaviour
\* of the violations or the inspections driver.
MaxFailures == 1

\* The same for the permits driver: a permit Change can fail on its first
\* attempt and again on its retry.
MaxPermitFailures == 2

\* Number of concurrent callers of the gateway.
MaxCallers == 2

\* Number of gateway calls the callers start between them.
MaxCalls == 2

\* Largest number of records of an initial permit import.
MaxImport == 2050

\* Number of failures (a batch with failed conversions, a bulk call that
\* fails or creates less than it was sent, a failed query) in one import.
MaxImportFailures == 2

\* Number of attachments of one webhook delivery.
MaxAttachments == 3

\* Number of records of one bulk batch that carry the same missing type name.
MaxConverters == 3

\* Number of times another run clears the module's caches meanwhile.
MaxClears == 1

\* Number of calls of the permit-types API that fail.
MaxTaxonomyFailures == 1

\* Number of matcher invocations in flight at once.
MaxInvocations == 3

\* Number of review-queue queries that fail.
MaxQueueFailures == 1

\* Number of records of a batch delivered to a deployment that matches with
\* the classifier over several runs.
MaxRematchBatch == 1

\* ------------------------------------------------------------- vocabulary

\* SQL NULL / JS null of a numeric column (ticket and permit ids are
\* positive serials, so 0 is free; `if (id)` is false for both).
NullId == 0

\* SQL NULL / JS null of a text value.
NullStr == "null"

\* Identity keys (external_id, unique_key, permit_no).
Keys == {"K1", "K2"}

\* Ticket ids of the ticketing system.
Tickets == {1, 2}

\* Permit ids of the ticketing system.
PermitIds == {1, 2}

\* What the message of an error thrown by a permit API call matches: the
\* stale-cache patterns ('does not exist', 'type_id', ...), the duplicate
\* patterns ('already exists', 'constraint'), or neither.
ErrorKinds == {"stale", "exists", "other"}

SyncTypes == {"violations", "inspections", "permits"}

\* Violation statuses seen in the export: the two closing ones and another.
ViolationStatuses == {"COMPLIED", "OPEN", "UNFOUNDED"}

InspectionResults == {"PASSED", "SCHEDULED"}

PermitStatuses == {"FINALED", "ISSUED"}

\* CLOSE_STATUSES without UNFOUNDED.
CLOSE_STATUSES_OnlyComplied == {"COMPLIED"}

CLOSE_STATUSES == {"COMPLIED", "UNFOUNDED"}

PROCESSING_BATCH_SIZE == 1000

BATCH_SIZE == 100

ViolationRecord == [externalId : Keys, violationStatus : ViolationStatuses]

InspectionRecord == [uniqueKey : Keys, result : InspectionResults]

PermitRecord == [permitNo : Keys, status : PermitStatuses]

\* Sequences over S of length at most n.
SeqUpTo(S, n) == UNION {[1..m -> S] : m \in 0..n}

\* ------------------------------------------------ strings, sort and dedup

\* The strings of the model in the order String.prototype.localeCompare
\* puts them.
Collation == <<"COMPLIED", "FINALED", "ISSUED", "K1", "K2", "OPEN", "PASSED", "SCHEDULED", "UNFOUNDED">>

Rank(s) == CHOOSE i \in 1..Len(Collation) : Collation[i] = s

localeCompare(a, b) == Rank(a) - Rank(b)

\* Array.prototype.sort with comparator cmp (stable: ties keep input order).
StableSort(s, cmp(_, _)) ==
    LET n == Len(s)
        pos(i) == 1 + Cardinality({j \in 1..n :
                        \/ cmp(s[j], s[i]) < 0
                        \/ cmp(s[j], s[i]) = 0 /\ j < i})
    IN [p \in 1..n |-> s[CHOOSE i \in 1..n : pos(i) = p]]

\* new Map(); for (r of s) map.set(keyOf(r), r); Array.from(map.values()):
\* one entry per key, in order of the key's first insertion, holding the
\* record set last.
MapLastWins(s, keyOf(_)) ==
    LET n == Len(s)
        firsts == {i \in 1..n : \A j \in 1..(i - 1) : keyOf(s[j]) # keyOf(s[i])}
        nth(p) == CHOOSE i \in firsts : Cardinality({j \in firsts : j < i}) = p - 1
        lastOf(i) == CHOOSE j \in 1..n :
                        /\ keyOf(s[j]) = keyOf(s[i])
                        /\ \A l \in (j + 1)..n : keyOf(s[l]) # keyOf(s[i])
    IN [p \in 1..Cardinality(firsts) |-> s[lastOf(nth(p))]]

\* ------------------------------------------------------ violations: state

\* violationCmp with the status order reversed.
violationCmpStatusDescending(a, b) ==
    IF localeCompare(a.externalId, b.externalId) # 0
    THEN localeCompare(a.externalId, b.externalId)
    ELSE localeCompare(b.violationStatus, a.violationStatus)

violationCmp(a, b) ==
    IF localeCompare(a.externalId, b.externalId) # 0
    THEN localeCompare(a.externalId, b.externalId)
    ELSE localeCompare(a.violationStatus, b.violationStatus)

violationKey(r) == r.externalId

dedupViolations(records) == MapLastWins(StableSort(records, violationCmp), violationKey)

\* diffViolations without the comparison against the stored status.
diffViolationsNoCompare(records, table) ==
    LET uniqueRecords == dedupViolations(records)
    IN [i \in 1..Len(uniqueRecords) |->
            [externalId |-> uniqueRecords[i].externalId, record |-> uniqueRecords[i],
             previousStatus |-> NullStr, newStatus |-> uniqueRecords[i].violationStatus,
             isNew |-> FALSE]]

\* diffViolations: the Changes of a batch against violation_state.
diffViolations(records, table) ==
    LET uniqueRecords == dedupViolations(records)
        changeOf(record) ==
            IF record.externalId \notin DOMAIN table
            THEN [externalId |-> record.externalId, record |-> record,
                  previousStatus |-> NullStr, newStatus |-> record.violationStatus,
                  isNew |-> TRUE]
            ELSE [externalId |-> record.externalId, record |-> record,
                  previousStatus |-> table[record.externalId].violation_status,
                  newStatus |-> record.violationStatus, isNew |-> FALSE]
        isChange(record) ==
            \/ record.externalId \notin DOMAIN table
            \/ table[record.externalId].violation_status # record.violationStatus
    IN [i \in 1..Len(SelectSeq(uniqueRecords, isChange)) |->
            changeOf(SelectSeq(uniqueRecords, isChange)[i])]

\* upsertViolationState with ON CONFLICT DO NOTHING: an existing row is not
\* refreshed.
upsertViolationStateInsertOnly(records, table, now) ==
    LET uniqueRecords == dedupViolations(records)
        newKeys == {uniqueRecords[i].externalId : i \in 1..Len(uniqueRecords)}
        recOf(k) == uniqueRecords[CHOOSE i \in 1..Len(uniqueRecords) : uniqueRecords[i].externalId = k]
    IN [k \in DOMAIN table \cup newKeys |->
            IF k \in DOMAIN table THEN table[k]
            ELSE [violation_status |-> recOf(k).violationStatus,
                  matched_ticket_id |-> NullId, match_method |-> NullStr,
                  match_confidence |-> NullStr,
                  last_seen_at |-> now, created_at |-> now]]

\* upsertViolationState: INSERT ... ON CONFLICT (external_id) DO UPDATE SET
\* violation_status, raw_data, last_seen_at; the other columns of an
\* existing row are left alone.
upsertViolationState(records, table, now) ==
    LET uniqueRecords == dedupViolations(records)
        newKeys == {uniqueRecords[i].externalId : i \in 1..Len(uniqueRecords)}
        recOf(k) == uniqueRecords[CHOOSE i \in 1..Len(uniqueRecords) : uniqueRecords[i].externalId = k]
    IN [k \in DOMAIN table \cup newKeys |->
            IF k \notin newKeys THEN table[k]
            ELSE IF k \in DOMAIN table
                 THEN [table[k] EXCEPT !.violation_status = recOf(k).violationStatus,
                                       !.last_seen_at = now]
                 ELSE [violation_status |-> recOf(k).violationStatus,
                       matched_ticket_id |-> NullId, match_method |-> NullStr,
                       match_confidence |-> NullStr,
                       last_seen_at |-> now, created_at |-> now]]

\* ----------------------------------------------------- inspections: state

inspectionCmp(a, b) ==
    IF localeCompare(a.uniqueKey, b.uniqueKey) # 0
    THEN localeCompare(a.uniqueKey, b.uniqueKey)
    ELSE localeCompare(a.result, b.result)

inspectionKey(r) == r.uniqueKey

dedupInspections(records) == MapLastWins(StableSort(records, inspectionCmp), inspectionKey)

\* diffInspections: the Changes of a batch against inspection_state.
diffInspections(records, table) ==
    LET uniqueRecords == dedupInspections(records)
        changeOf(record) ==
            IF record.uniqueKey \notin DOMAIN table
            THEN [uniqueKey |-> record.uniqueKey, record |-> record,
                  previousResult |-> NullStr, newResult |-> record.result, isNew |-> TRUE]
            ELSE [uniqueKey |-> record.uniqueKey, record |-> record,
                  previousResult |-> table[record.uniqueKey].result,
                  newResult |-> record.result, isNew |-> FALSE]
        isChange(record) ==
            \/ record.uniqueKey \notin DOMAIN table
            \/ table[record.uniqueKey].result # record.result
    IN [i \in 1..Len(SelectSeq(uniqueRecords, isChange)) |->
            changeOf(SelectSeq(uniqueRecords, isChange)[i])]

\* upsertInspectionState: INSERT ... ON CONFLICT (unique_key) DO UPDATE SET
\* result, completed_date, raw_data, last_seen_at.
upsertInspectionState(records, table, now) ==
    LET uniqueRecords == dedupInspections(records)
        newKeys == {uniqueRecords[i].uniqueKey : i \in 1..Len(uniqueRecords)}
        recOf(k) == uniqueRecords[CHOOSE i \in 1..Len(uniqueRecords) : uniqueRecords[i].uniqueKey = k]
    IN [k \in DOMAIN table \cup newKeys |->
            IF k \notin newKeys THEN table[k]
            ELSE IF k \in DOMAIN table
                 THEN [table[k] EXCEPT !.result = recOf(k).result, !.last_seen_at = now]
                 ELSE [result |-> recOf(k).result, last_seen_at |-> now, created_at |-> now]]

\* --------------------------------------------------------- permits: state

\* generatePermitHash: the hashed fields joined with '|' (permitNo is not
\* one of them; status is the hashed field the model varies).
generatePermitHash(record) == <<record.status>>

permitKey(r) == r.permitNo

\* sortPermitsLatestFirst: descending by permit number, nothing else.
permitCmp(a, b) == localeCompare(b.permitNo, a.permitNo)

sortPermitsLatestFirst(records) == StableSort(records, permitCmp)

\* diffPermits and upsertPermitState deduplicate without sorting.
dedupPermits(records) == MapLastWins(records, permitKey)

\* diffPermits: the Changes of a batch against permit_state, by content hash.
diffPermits(records, table) ==
    LET uniqueRecords == dedupPermits(records)
        changeOf(record) ==
            IF record.permitNo \notin DOMAIN table
            THEN [permitNo |-> record.permitNo, record |-> record,
                  previousHash |-> <<>>, newHash |-> generatePermitHash(record),
                  isNew |-> TRUE, threefoldPermitId |-> NullId, threefoldTypeId |-> NullId]
            ELSE [permitNo |-> record.permitNo, record |-> record,
                  previousHash |-> table[record.permitNo].content_hash,
                  newHash |-> generatePermitHash(record), isNew |-> FALSE,
                  threefoldPermitId |-> table[record.permitNo].threefold_permit_id,
                  threefoldTypeId |-> table[record.permitNo].threefold_type_id]
        isChange(record) ==
            \/ record.permitNo \notin DOMAIN table
            \/ table[record.permitNo].content_hash # generatePermitHash(record)
    IN [i \in 1..Len(SelectSeq(uniqueRecords, isChange)) |->
            changeOf(SelectSeq(uniqueRecords, isChange)[i])]

\* An upsert that replaces the whole row of an existing key.
upsertPermitStateReplace(records, table, now) ==
    LET uniqueRecords == dedupPermits(records)
        newKeys == {uniqueRecords[i].permitNo : i \in 1..Len(uniqueRecords)}
        recOf(k) == uniqueRecords[CHOOSE i \in 1..Len(uniqueRecords) : uniqueRecords[i].permitNo = k]
    IN [k \in DOMAIN table \cup newKeys |->
            IF k \notin newKeys THEN table[k]
            ELSE [status |-> recOf(k).status,
                  content_hash |-> generatePermitHash(recOf(k)),
                  threefold_permit_id |-> NullId, threefold_type_id |-> NullId,
                  last_seen_at |-> now, created_at |-> now]]

\* upsertPermitState: INSERT ... ON CONFLICT (permit_no) DO UPDATE SET the
\* content columns, content_hash, last_seen_at; the threefold_* columns of an
\* existing row are left alone.
upsertPermitState(records, table, now) ==
    LET uniqueRecords == dedupPermits(records)
        newKeys == {uniqueRecords[i].permitNo : i \in 1..Len(uniqueRecords)}
        recOf(k) == uniqueRecords[CHOOSE i \in 1..Len(uniqueRecords) : uniqueRecords[i].permitNo = k]
    IN [k \in DOMAIN table \cup newKeys |->
            IF k \notin newKeys THEN table[k]
            ELSE IF k \in DOMAIN table
                 THEN [table[k] EXCEPT !.status = recOf(k).status,
                                       !.content_hash = generatePermitHash(recOf(k)),
                                       !.last_seen_at = now]
                 ELSE [status |-> recOf(k).status,
                       content_hash |-> generatePermitHash(recOf(k)),
                       threefold_permit_id |-> NullId, threefold_type_id |-> NullId,
                       last_seen_at |-> now, created_at |-> now]]

\* updatePermitThreefoldIds: UPDATE permit_state SET threefold_* WHERE
\* permit_no (no row, no effect).
updatePermitThreefoldIds(table, permitNo, threefoldPermitId, threefoldTypeId) ==
    IF permitNo \in DOMAIN table
    THEN [table EXCEPT ![permitNo] = [@ EXCEPT !.threefold_permit_id = threefoldPermitId,
                                              !.threefold_type_id = threefoldTypeId]]
    ELSE table

\* ------------------------------------------------------------------ state

VARIABLES
    syncType,          \* the record type of the attachments this deployment receives
    config,            \* ticketUpdatesEnabled, permitUpdatesEnabled, llmMatchingEnabled
    violation_state,   \* table: external_id -> row
    inspection_state,  \* table: unique_key -> row
    permit_state,      \* table: permit_no -> row
    sync_log,          \* table: id (position) -> row
    review_queue,      \* table: id (position) -> row
    match_log,         \* table: id (position) -> row
    runs,              \* sync runs started so far; NOW() of the run's queries
    matches,           \* direct matcher invocations so far
    resolves,          \* manual resolutions so far
    faults,            \* awaited calls that threw so far
    pc,                \* the awaited call the running handler is suspended at
    run,               \* locals of the running process*Sync
    chg                \* locals of the Change being processed and of the matcher

\* The external gateway (threefold.ts, threefold-permits.ts).  The clock is
\* kept relative: `elapsed` is Date.now() - lastRequestTime of each gateway
\* module, counted up to the module's minimum interval (the code only asks
\* whether it is below it, and by how much), and a pending setTimeout is the
\* time left until it fires.
VARIABLES
    elapsed,           \* gateway module -> Date.now() - lastRequestTime, in ms
    callers,           \* caller -> the gateway call it is in and where it is suspended
    shortestGap        \* gateway module -> the least ms between two of its requests so far

gateway == <<elapsed, callers, shortestGap>>

\* The initial permit import with its records counted, not listed, and the
\* webhook handler with the run of an attachment taken as one step.
VARIABLES
    bulk,              \* locals of processPermitsSync and bulkProcessNewPermits, by counts
    delivery,          \* the attachments of a webhook delivery and the handler's progress
    taxonomy,          \* the permit-type cache, its concurrent readers, the external entries
    invocations        \* matchViolationToTicket invocations in flight at their review branch

\* What the drivers and the matcher leave alone.
apart == <<gateway, bulk, delivery, taxonomy, invocations>>

vars == <<syncType, config, violation_state, inspection_state, permit_state,
          sync_log, review_queue, match_log, runs, matches, resolves, faults, pc, run, chg,
          elapsed, callers, shortestGap, bulk, delivery, taxonomy, invocations>>

tables == <<violation_state, inspection_state, permit_state>>

NoLLMResult == [ok |-> FALSE, ticketId |-> NullId, confidence |-> NullStr]

NoMatchResult == [ticketId |-> NullId, matchMethod |-> NullStr, confidence |-> NullStr,
                  needsReview |-> FALSE]

\* Locals of one Change: the calls awaited for it so far (in order), what the
\* matcher read and decided, the linked tickets of an inspection and the ones
\* commented on, the retry count of a permit, and how the Change ended.
NoChange == [key |-> NullStr, calls |-> <<>>, caller |-> NullStr,
             cachedTicketId |-> NullId, exactMatch |-> NullId,
             candidates |-> <<>>, llmResult |-> NoLLMResult, reason |-> NullStr,
             result |-> NoMatchResult, returned |-> FALSE, threw |-> FALSE,
             tickets |-> <<>>, n |-> 0, commented |-> <<>>, retryCount |-> 0,
             target |-> NullId, threefoldPermitId |-> NullId]

\* Locals of one run of process*Sync, and what the run has done so far:
\* `input` is the batch as received (`records` the batch as the driver uses
\* it), `repeat` says the batch is the one the previous run completed with,
\* `before` is the type's state table when the run started, `path` the
\* branch of processPermitsSync taken; batchIdx, i0, requests, totalCreated
\* and totalFailed are the locals of the initial permit import; `thrown`
\* counts the per-Change actions that threw; `raised` is the message of the
\* exception process*Sync threw to its caller; `prior` holds, in a run that
\* is the redelivery of the batch of a run that threw, the locals of the
\* Change that run processed last.
NoRun == [records |-> <<>>, syncLogId |-> 0, errors |-> 0, changed |-> 0,
          tableWasEmpty |-> FALSE, isInitialSync |-> FALSE, diffCalls |-> 0,
          changes |-> <<>>, i |-> 0, actionCalls |-> 0, upserts |-> 0,
          errorMessage |-> NullStr, repeat |-> FALSE, before |-> <<>>,
          input |-> <<>>, path |-> NullStr, batchIdx |-> 0, i0 |-> 0,
          requests |-> <<>>, totalCreated |-> 0, totalFailed |-> 0, thrown |-> 0,
          raised |-> NullStr, prior |-> NoChange]

\* The locals of a run of process*Sync(records) that starts against `table`.
BeginRun(records, table) ==
    [NoRun EXCEPT !.records = records,
                  !.input = records,
                  !.tableWasEmpty = (DOMAIN table = {}),
                  !.repeat = (pc = "done" /\ run.input = records),
                  !.prior = IF pc = "raised" /\ run.input = records THEN chg ELSE NoChange,
                  !.before = table]

Called(name) == \E n \in 1..Len(chg.calls) : chg.calls[n] = name

\* ------------------------------------------------------------ sync logging

\* createSyncLog: INSERT INTO sync_log (sync_type); the other columns take
\* their defaults.
createSyncLog(log, type) ==
    Append(log, [sync_type |-> type, completed |-> FALSE, total_records |-> 0,
                 changed_records |-> 0, errors |-> 0, error_message |-> NullStr])

\* An UPDATE of the counts that leaves completed_at alone.
completeSyncLogCountsOnly(log, id, totalRecords, changedRecords, errs, errorMessage) ==
    [log EXCEPT ![id] = [@ EXCEPT !.total_records = totalRecords,
                                  !.changed_records = changedRecords,
                                  !.errors = errs,
                                  !.error_message = errorMessage]]

\* completeSyncLog: UPDATE sync_log SET completed_at = NOW(), ... WHERE id.
completeSyncLog(log, id, totalRecords, changedRecords, errs, errorMessage) ==
    [log EXCEPT ![id] = [@ EXCEPT !.completed = TRUE,
                                  !.total_records = totalRecords,
                                  !.changed_records = changedRecords,
                                  !.errors = errs,
                                  !.error_message = errorMessage]]

\* isTableEmpty that never reports an empty table.
isTableEmptyNever(table) == FALSE

\* isTableEmpty: SELECT 1 FROM table LIMIT 1 returned no row.
isTableEmpty(table) == DOMAIN table = {}

\* ------------------------------------------------------------- review queue

\* isInReviewQueue that never finds a pending row.
isInReviewQueueNever(queue, externalId) == FALSE

\* isInReviewQueue: a row of this external_id with status 'pending' exists.
isInReviewQueue(queue, externalId) ==
    \E n \in 1..Len(queue) : queue[n].external_id = externalId /\ queue[n].status = "pending"

\* queueForReview: INSERT INTO review_queue; status defaults to 'pending'.
queueForReview(queue, externalId, reason) ==
    Append(queue, [external_id |-> externalId, reason |-> reason, status |-> "pending",
                   resolved_ticket_id |-> NullId])

\* resolveReviewItem: UPDATE review_queue SET status, resolved_ticket_id WHERE id.
resolveReviewItem(queue, id, ticketId) ==
    [queue EXCEPT ![id] = [@ EXCEPT !.status = IF ticketId # NullId THEN "resolved" ELSE "skipped",
                                    !.resolved_ticket_id = ticketId]]

\* ------------------------------------------------------------- match cache

\* A cache read that never finds a stored ticket.
getMatchedTicketIdNever(table, externalId) == NullId

\* getMatchedTicketId: result.rows[0]?.matched_ticket_id ?? null.
getMatchedTicketId(table, externalId) ==
    IF externalId \in DOMAIN table THEN table[externalId].matched_ticket_id ELSE NullId

\* setMatchedTicketId: UPDATE violation_state SET matched_ticket_id, match_method,
\* match_confidence WHERE external_id (no row, no effect).
setMatchedTicketId(table, externalId, ticketId, matchMethod, confidence) ==
    IF externalId \in DOMAIN table
    THEN [table EXCEPT ![externalId] = [@ EXCEPT !.matched_ticket_id = ticketId,
                                                 !.match_method = matchMethod,
                                                 !.match_confidence = confidence]]
    ELSE table

\* logMatchAttempt: INSERT INTO match_log.
logMatchAttempt(log, externalId, candidateCount, selectedTicketId, confidence) ==
    Append(log, [external_id |-> externalId, match_method |-> "llm",
                 candidate_count |-> candidateCount,
                 selected_ticket_id |-> selectedTicketId, confidence |-> confidence])

\* ---------------------------------------------------------------- classifier

\* What callOpenAI can return: text that is no JSON, or a JSON object with a
\* ticketId (null or a number) and a confidence word.
LLMResponses ==
    {[json |-> FALSE, ticketId |-> NullId, confidence |-> NullStr]} \cup
    [json : {TRUE}, ticketId : {NullId} \cup Tickets,
     confidence : {"high", "medium", "low", "certain"}]

\* parseMatchingResponse without the test against the candidates.
parseMatchingResponseAnyId(response, candidateIds) ==
    IF ~response.json THEN NoLLMResult
    ELSE [ok |-> TRUE, ticketId |-> response.ticketId,
          confidence |-> IF response.confidence \in {"high", "medium", "low"}
                         THEN response.confidence ELSE "low"]

\* parseMatchingResponse: null for unparseable text or a ticket id outside the
\* candidates; a confidence outside high/medium/low becomes low.
parseMatchingResponse(response, candidateIds) ==
    IF ~response.json THEN NoLLMResult
    ELSE IF response.ticketId # NullId
            /\ ~(\E n \in 1..Len(candidateIds) : candidateIds[n] = response.ticketId)
         THEN NoLLMResult
         ELSE [ok |-> TRUE, ticketId |-> response.ticketId,
               confidence |-> IF response.confidence \in {"high", "medium", "low"}
                              THEN response.confidence ELSE "low"]

\* Step 9 without the test of the confidence.
needsManualReviewNullOnly(llmResult) == llmResult.ticketId = NullId

\* Step 9 of matchViolationToTicket: no ticket, or low confidence.
needsManualReview(llmResult) ==
    llmResult.ticketId = NullId \/ llmResult.confidence = "low"


\* ------------------------------------------------------------------ dry run

\* A driver that takes no run for a dry run.
dryRunOff == FALSE

\* const dryRun = !config.ticketUpdatesEnabled (violations, inspections)
dryRunTickets == ~config.ticketUpdatesEnabled

\* const dryRun = !config.permitUpdatesEnabled (permits)
dryRunPermits == ~config.permitUpdatesEnabled

\* ------------------------------------------------------- the driver's loop

CurrentChange == run.changes[run.i]

\* A fresh Change starts: the locals of the previous one are dropped.
BeginChange(key) == [NoChange EXCEPT !.key = key, !.caller = "driver"]

\* The loop without the per-Change catch: a Change that throws ends the loop.
NextChangeFromAbort(r0, ok, changePc, upsertPc) ==
    LET r == IF ok THEN [r0 EXCEPT !.changed = @ + 1, !.i = @ + 1]
             ELSE [r0 EXCEPT !.i = Len(r0.changes) + 1]
    IN /\ run' = r
       /\ pc' = IF r.i > Len(r.changes) THEN upsertPc ELSE changePc

\* The try/catch around one Change in the driver's for loop: changed++ when
\* the per-Change action returned, errors++ when it threw; then the next
\* Change, or the state upsert after the last one.
NextChangeFrom(r0, ok, changePc, upsertPc) ==
    LET r == [r0 EXCEPT !.changed = IF ok THEN @ + 1 ELSE @,
                        !.errors = IF ok THEN @ ELSE @ + 1,
                        !.i = @ + 1]
    IN /\ run' = r
       /\ pc' = IF r.i > Len(r.changes) THEN upsertPc ELSE changePc

NextChange(ok, changePc, upsertPc) == NextChangeFrom(run, ok, changePc, upsertPc)

\* The number of calls that may throw in this behaviour.
FaultBudget == IF syncType = "permits" THEN MaxPermitFailures ELSE MaxFailures

\* The awaited call throws / does not throw.
Fault == faults < FaultBudget /\ faults' = faults + 1

NoFault == UNCHANGED faults

\* An awaited call throws and the exception reaches the catch block of
\* process*Sync.
ToCatch(catchPc) ==
    /\ Fault
    /\ run' = [run EXCEPT !.errorMessage = "query failed"]
    /\ pc' = catchPc

\* An awaited call of the per-Change action throws out of it.
ChangeThrows(c, changePc, upsertPc) ==
    /\ Fault
    /\ chg' = [c EXCEPT !.threw = TRUE]
    /\ NextChangeFrom([run EXCEPT !.thrown = @ + 1], FALSE, changePc, upsertPc)

\* ------------------------------------------------------- violations driver

\* processViolationsSync(records) is called: createSyncLog('violations').
\* The INSERT is outside the try block: if it fails the caller gets the error.
processViolationsSync(records) ==
    /\ syncType = "violations"
    /\ pc \in {"idle", "done", "raised"}
    /\ runs < MaxRuns
    /\ runs' = runs + 1
    /\ chg' = NoChange
    /\ \/ /\ NoFault
          /\ sync_log' = createSyncLog(sync_log, "violations")
          /\ run' = [BeginRun(records, violation_state) EXCEPT !.syncLogId = Len(sync_log) + 1]
          /\ pc' = "v_isTableEmpty"
       \/ /\ Fault
          /\ run' = [BeginRun(records, violation_state) EXCEPT !.raised = "query failed"]
          /\ pc' = "raised"
          /\ UNCHANGED sync_log
    /\ UNCHANGED <<apart, syncType, config, tables, review_queue, match_log, matches, resolves>>

\* const isInitialSync = await isTableEmpty('violation_state')
V_isTableEmpty ==
    /\ pc = "v_isTableEmpty"
    /\ \/ /\ NoFault
          /\ run' = [run EXCEPT !.isInitialSync = isTableEmpty(violation_state)]
          /\ pc' = IF isTableEmpty(violation_state) THEN "v_initialUpsert" ELSE "v_diff"
       \/ ToCatch("v_catch")
    /\ UNCHANGED <<apart, syncType, config, tables, sync_log, review_queue, match_log,
                   runs, matches, resolves, chg>>

\* Initial sync: await upsertViolationState(records)
V_initialUpsert ==
    /\ pc = "v_initialUpsert"
    /\ \/ /\ NoFault
          /\ violation_state' = upsertViolationState(run.records, violation_state, runs)
          /\ run' = [run EXCEPT !.upserts = @ + 1]
          /\ pc' = "v_initialComplete"
       \/ ToCatch("v_catch") /\ UNCHANGED violation_state
    /\ UNCHANGED <<apart, syncType, config, inspection_state, permit_state, sync_log,
                   review_queue, match_log, runs, matches, resolves, chg>>

\* Initial sync: await completeSyncLog(id, records.length, records.length, 0); return
V_initialComplete ==
    /\ pc = "v_initialComplete"
    /\ \/ /\ NoFault
          /\ sync_log' = completeSyncLog(sync_log, run.syncLogId, Len(run.records),
                                         Len(run.records), 0, NullStr)
          /\ pc' = "done"
          /\ UNCHANGED run
       \/ ToCatch("v_catch") /\ UNCHANGED sync_log
    /\ UNCHANGED <<apart, syncType, config, tables, review_queue, match_log,
                   runs, matches, resolves, chg>>

\* const changes = await diffViolations(records)
V_diff ==
    /\ pc = "v_diff"
    /\ \/ LET changes == diffViolations(run.records, violation_state)
          IN /\ NoFault
             /\ run' = [run EXCEPT !.changes = changes, !.i = 1, !.diffCalls = @ + 1]
             /\ pc' = IF changes = <<>> THEN "v_upsert" ELSE "v_change"
       \/ ToCatch("v_catch")
    /\ UNCHANGED <<apart, syncType, config, tables, sync_log, review_queue, match_log,
                   runs, matches, resolves, chg>>

\* processViolationChange without the test of isNew.
processViolationChangeNewToo ==
    /\ pc = "v_change"
    /\ chg' = BeginChange(CurrentChange.externalId)
    /\ LET r0 == [run EXCEPT !.actionCalls = @ + 1]
       IN IF dryRunTickets
          THEN NextChangeFrom(r0, TRUE, "v_change", "v_upsert")
          ELSE /\ pc' = "m_getMatchedTicketId"
               /\ run' = r0
    /\ UNCHANGED <<apart, syncType, config, tables, sync_log, review_queue, match_log,
                   runs, matches, resolves, faults>>

\* processViolationChange(change) up to its first await: a new record and a
\* dry run return at once; otherwise matchViolationToTicket(record) starts.
processViolationChange ==
    /\ pc = "v_change"
    /\ chg' = BeginChange(CurrentChange.externalId)
    /\ LET r0 == [run EXCEPT !.actionCalls = @ + 1]
       IN IF CurrentChange.isNew \/ dryRunTickets
          THEN NextChangeFrom(r0, TRUE, "v_change", "v_upsert")
          ELSE /\ pc' = "m_getMatchedTicketId"
               /\ run' = r0
    /\ UNCHANGED <<apart, syncType, config, tables, sync_log, review_queue, match_log,
                   runs, matches, resolves, faults>>

\* --------------------------------------------------- matchViolationToTicket

\* The matcher returns `result`.  Its caller processViolationChange goes on
\* synchronously to its next await: no ticket id -> return; a closing status
\* -> closeTicket; any other status -> the status-update comment.
MatcherReturns(c, result) ==
    /\ chg' = [c EXCEPT !.result = result, !.returned = TRUE]
    /\ IF c.caller = "direct"
       THEN pc' = "matched" /\ UNCHANGED run
       ELSE IF result.ticketId = NullId
            THEN NextChange(TRUE, "v_change", "v_upsert")
            ELSE /\ pc' = IF CurrentChange.newStatus \in CLOSE_STATUSES
                          THEN "v_moveTicketToStep" ELSE "v_addTicketComment"
                 /\ UNCHANGED run

\* An awaited call throws out of the matcher (and with it out of
\* processViolationChange).
MatcherThrows(c) ==
    IF c.caller = "direct"
    THEN Fault /\ chg' = [c EXCEPT !.threw = TRUE] /\ pc' = "matched" /\ UNCHANGED run
    ELSE ChangeThrows(c, "v_change", "v_upsert")

Awaited(name) == [chg EXCEPT !.calls = Append(@, name)]

\* After the external-ID lookup found nothing (or its try block threw):
\* step 3, LLM matching disabled -> no match, else the location search.
AfterExternalIdLookup(c) ==
    IF ~config.llmMatchingEnabled
    THEN MatcherReturns(c, [ticketId |-> NullId, matchMethod |-> "none",
                            confidence |-> NullStr, needsReview |-> TRUE])
    ELSE chg' = c /\ pc' = "m_fetchTicketsByLocation" /\ UNCHANGED run

\* 1. const cachedTicketId = await getMatchedTicketId(externalId)
M_getMatchedTicketId ==
    /\ pc = "m_getMatchedTicketId"
    /\ LET c == Awaited("getMatchedTicketId")
           cachedTicketId == getMatchedTicketId(violation_state, chg.key)
       IN \/ /\ NoFault
             /\ IF cachedTicketId # NullId
                THEN MatcherReturns([c EXCEPT !.cachedTicketId = cachedTicketId],
                                    [ticketId |-> cachedTicketId, matchMethod |-> "cached",
                                     confidence |-> NullStr, needsReview |-> FALSE])
                ELSE chg' = c /\ pc' = "m_findTicketByExternalId" /\ UNCHANGED run
          \/ MatcherThrows(c)
    /\ UNCHANGED <<apart, syncType, config, tables, sync_log, review_queue, match_log,
                   runs, matches, resolves>>

\* 2. const exactMatch = await findTicketByExternalId(externalId), inside try:
\* a ticket, null (404), or an error that the catch block only logs.
M_findTicketByExternalId ==
    /\ pc = "m_findTicketByExternalId"
    /\ LET c == Awaited("findTicketByExternalId")
       IN \/ \E t \in Tickets :
                /\ NoFault
                /\ chg' = [c EXCEPT !.exactMatch = t]
                /\ pc' = "m_setMatchedTicketId_external"
                /\ UNCHANGED run
          \/ NoFault /\ AfterExternalIdLookup(c)
          \/ Fault /\ AfterExternalIdLookup(c)
    /\ UNCHANGED <<apart, syncType, config, tables, sync_log, review_queue, match_log,
                   runs, matches, resolves>>

\* 2. await setMatchedTicketId(externalId, exactMatch.ticketId, 'external_id'),
\* inside the same try block: if the UPDATE fails the catch block logs
\* "External ID lookup failed" and the matcher goes on to step 3.
M_setMatchedTicketId_external ==
    /\ pc = "m_setMatchedTicketId_external"
    /\ LET c == Awaited("setMatchedTicketId:external_id")
       IN \/ /\ NoFault
             /\ violation_state' = setMatchedTicketId(violation_state, chg.key,
                                        chg.exactMatch, "external_id", NullStr)
             /\ MatcherReturns(c, [ticketId |-> chg.exactMatch, matchMethod |-> "external_id",
                                   confidence |-> NullStr, needsReview |-> FALSE])
          \/ /\ Fault
             /\ AfterExternalIdLookup(c)
             /\ UNCHANGED violation_state
    /\ UNCHANGED <<apart, syncType, config, inspection_state, permit_state, sync_log,
                   review_queue, match_log, runs, matches, resolves>>

\* 4. candidates = await fetchTicketsByLocation(...): candidates, none, or an
\* error (no match, no review, retried on the next sync).
M_fetchTicketsByLocation ==
    /\ pc = "m_fetchTicketsByLocation"
    /\ LET c == Awaited("fetchTicketsByLocation")
       IN \/ \E candidates \in {<<>>, <<1>>} :
                /\ NoFault
                /\ chg' = [c EXCEPT !.candidates = candidates,
                                    !.reason = IF candidates = <<>> THEN "no_candidates" ELSE @]
                /\ pc' = IF candidates = <<>> THEN "m_isInReviewQueue" ELSE "m_callOpenAI"
                /\ UNCHANGED run
          \/ /\ Fault
             /\ MatcherReturns(c, [ticketId |-> NullId, matchMethod |-> "none",
                                   confidence |-> NullStr, needsReview |-> FALSE])
    /\ UNCHANGED <<apart, syncType, config, tables, sync_log, review_queue, match_log,
                   runs, matches, resolves>>

\* Step 6 without its try/catch: a failure of callOpenAI leaves the matcher.
M_callOpenAIUncaught ==
    /\ pc = "m_callOpenAI"
    /\ LET c == Awaited("callOpenAI")
       IN \/ \E response \in LLMResponses :
                LET llmResult == parseMatchingResponse(response, chg.candidates)
                IN /\ NoFault
                   /\ chg' = [c EXCEPT !.llmResult = llmResult,
                                       !.reason = IF llmResult.ok THEN @ ELSE "llm_parse_error"]
                   /\ pc' = IF llmResult.ok THEN "m_logMatchAttempt" ELSE "m_isInReviewQueue"
                   /\ UNCHANGED run
          \/ MatcherThrows(c)
    /\ UNCHANGED <<apart, syncType, config, tables, sync_log, review_queue, match_log,
                   runs, matches, resolves>>

\* 6. response = await callOpenAI(prompt); llmResult = parseMatchingResponse(...):
\* an API failure and an unparseable response go to the review queue, a
\* parsed result is logged first (step 8).
M_callOpenAI ==
    /\ pc = "m_callOpenAI"
    /\ LET c == Awaited("callOpenAI")
       IN \/ \E response \in LLMResponses :
                LET llmResult == parseMatchingResponse(response, chg.candidates)
                IN /\ NoFault
                   /\ chg' = [c EXCEPT !.llmResult = llmResult,
                                       !.reason = IF llmResult.ok THEN @ ELSE "llm_parse_error"]
                   /\ pc' = IF llmResult.ok THEN "m_logMatchAttempt" ELSE "m_isInReviewQueue"
          \/ /\ Fault
             /\ chg' = [c EXCEPT !.reason = "api_error"]
             /\ pc' = "m_isInReviewQueue"
    /\ UNCHANGED <<apart, syncType, config, tables, sync_log, review_queue, match_log,
                   runs, matches, resolves, run>>

\* What follows the review-queue block of each reason: the match log for
\* no_candidates and llm_parse_error, the return for api_error and
\* low_confidence (which hands back the classifier's ticket id).
AfterQueue(c) ==
    IF c.reason \in {"no_candidates", "llm_parse_error"}
    THEN chg' = c /\ pc' = "m_logMatchAttempt" /\ UNCHANGED run
    ELSE MatcherReturns(c, [ticketId |-> c.llmResult.ticketId, matchMethod |-> "llm",
                            confidence |-> c.llmResult.confidence, needsReview |-> TRUE])

\* if (!(await isInReviewQueue(externalId))) ...
M_isInReviewQueue ==
    /\ pc = "m_isInReviewQueue"
    /\ LET c == Awaited("isInReviewQueue")
       IN \/ /\ NoFault
             /\ IF isInReviewQueue(review_queue, chg.key)
                THEN AfterQueue(c)
                ELSE chg' = c /\ pc' = "m_queueForReview" /\ UNCHANGED run
          \/ MatcherThrows(c)
    /\ UNCHANGED <<apart, syncType, config, tables, sync_log, review_queue, match_log,
                   runs, matches, resolves>>

\* ... await queueForReview(violation, candidates, reason)
M_queueForReview ==
    /\ pc = "m_queueForReview"
    /\ LET c == Awaited("queueForReview")
       IN \/ /\ NoFault
             /\ review_queue' = queueForReview(review_queue, chg.key, chg.reason)
             /\ AfterQueue(c)
          \/ /\ MatcherThrows(c)
             /\ UNCHANGED review_queue
    /\ UNCHANGED <<apart, syncType, config, tables, sync_log, match_log,
                   runs, matches, resolves>>

\* await logMatchAttempt(...): with candidateCount 0 after no_candidates, with
\* no selection after llm_parse_error (both then return no match), and with
\* the classifier's decision at step 8, which step 9 then gates.
M_logMatchAttempt ==
    /\ pc = "m_logMatchAttempt"
    /\ LET c == Awaited("logMatchAttempt")
       IN \/ /\ NoFault
             /\ match_log' = logMatchAttempt(match_log, chg.key, Len(chg.candidates),
                                             chg.llmResult.ticketId, chg.llmResult.confidence)
             /\ IF chg.reason \in {"no_candidates", "llm_parse_error"}
                THEN MatcherReturns(c, [ticketId |-> NullId, matchMethod |-> "llm",
                                        confidence |-> NullStr, needsReview |-> TRUE])
                ELSE IF needsManualReview(chg.llmResult)
                     THEN /\ chg' = [c EXCEPT !.reason = "low_confidence"]
                          /\ pc' = "m_isInReviewQueue"
                          /\ UNCHANGED run
                     ELSE chg' = c /\ pc' = "m_setMatchedTicketId_llm" /\ UNCHANGED run
          \/ /\ MatcherThrows(c)
             /\ UNCHANGED match_log
    /\ UNCHANGED <<apart, syncType, config, tables, sync_log, review_queue,
                   runs, matches, resolves>>

\* 10. await setMatchedTicketId(externalId, llmResult.ticketId, 'llm', confidence)
M_setMatchedTicketId_llm ==
    /\ pc = "m_setMatchedTicketId_llm"
    /\ LET c == Awaited("setMatchedTicketId:llm")
       IN \/ /\ NoFault
             /\ violation_state' = setMatchedTicketId(violation_state, chg.key,
                                        chg.llmResult.ticketId, "llm", chg.llmResult.confidence)
             /\ chg' = c /\ pc' = "m_setTicketExternalId" /\ UNCHANGED run
          \/ /\ MatcherThrows(c)
             /\ UNCHANGED violation_state
    /\ UNCHANGED <<apart, syncType, config, inspection_state, permit_state, sync_log,
                   review_queue, match_log, runs, matches, resolves>>

\* 11. await setTicketExternalId(ticketId, externalId) in try/catch: stamping
\* is best effort, the match is returned whether it worked or threw.
M_setTicketExternalId ==
    /\ pc = "m_setTicketExternalId"
    /\ NoFault \/ Fault
    /\ MatcherReturns(Awaited("setTicketExternalId"),
                      [ticketId |-> chg.llmResult.ticketId, matchMethod |-> "llm",
                       confidence |-> chg.llmResult.confidence, needsReview |-> FALSE])
    /\ UNCHANGED <<apart, syncType, config, tables, sync_log, review_queue, match_log,
                   runs, matches, resolves>>

\* ---------------------------------------------- violations: ticket actions

\* A closeTicket that goes on to the comment when the step change failed.
V_moveTicketToStepSwallowed ==
    /\ pc = "v_moveTicketToStep"
    /\ \/ NoFault /\ chg' = Awaited("moveTicketToStep") /\ pc' = "v_closeComment" /\ UNCHANGED run
       \/ Fault /\ chg' = Awaited("moveTicketToStep") /\ pc' = "v_closeComment" /\ UNCHANGED run
    /\ UNCHANGED <<apart, syncType, config, tables, sync_log, review_queue, match_log,
                   runs, matches, resolves>>

\* closeTicket: await moveTicketToStep(ticketId, closeViolationStepId); if it
\* throws, closeTicket and processViolationChange throw.
V_moveTicketToStep ==
    /\ pc = "v_moveTicketToStep"
    /\ \/ NoFault /\ chg' = Awaited("moveTicketToStep") /\ pc' = "v_closeComment" /\ UNCHANGED run
       \/ ChangeThrows(Awaited("moveTicketToStep"), "v_change", "v_upsert")
    /\ UNCHANGED <<apart, syncType, config, tables, sync_log, review_queue, match_log,
                   runs, matches, resolves>>

\* closeTicket: await addTicketComment(ticketId, 'Automatically closed: ...')
V_closeComment ==
    /\ pc = "v_closeComment"
    /\ \/ NoFault /\ chg' = Awaited("addTicketComment:closed") /\ NextChange(TRUE, "v_change", "v_upsert")
       \/ ChangeThrows(Awaited("addTicketComment:closed"), "v_change", "v_upsert")
    /\ UNCHANGED <<apart, syncType, config, tables, sync_log, review_queue, match_log,
                   runs, matches, resolves>>

\* await addTicketComment(ticketId, 'TrakIT status update: ...')
V_addTicketComment ==
    /\ pc = "v_addTicketComment"
    /\ \/ NoFault /\ chg' = Awaited("addTicketComment:status") /\ NextChange(TRUE, "v_change", "v_upsert")
       \/ ChangeThrows(Awaited("addTicketComment:status"), "v_change", "v_upsert")
    /\ UNCHANGED <<apart, syncType, config, tables, sync_log, review_queue, match_log,
                   runs, matches, resolves>>

\* -------------------------------------------- violations: end of the run

\* await upsertViolationState(records); a failure is rethrown to the catch block.
V_upsert ==
    /\ pc = "v_upsert"
    /\ \/ /\ NoFault
          /\ violation_state' = upsertViolationState(run.records, violation_state, runs)
          /\ run' = [run EXCEPT !.upserts = @ + 1]
          /\ pc' = "v_complete"
       \/ ToCatch("v_catch") /\ UNCHANGED violation_state
    /\ UNCHANGED <<apart, syncType, config, inspection_state, permit_state, sync_log,
                   review_queue, match_log, runs, matches, resolves, chg>>

\* await completeSyncLog(id, records.length, changed, errors)
V_complete ==
    /\ pc = "v_complete"
    /\ \/ /\ NoFault
          /\ sync_log' = completeSyncLog(sync_log, run.syncLogId, Len(run.records),
                                         run.changed, run.errors, NullStr)
          /\ pc' = "done"
          /\ UNCHANGED run
       \/ ToCatch("v_catch") /\ UNCHANGED sync_log
    /\ UNCHANGED <<apart, syncType, config, tables, review_queue, match_log,
                   runs, matches, resolves, chg>>

\* catch (err): await completeSyncLog(id, records.length, changed, errors,
\* errorMessage); throw err.  If this UPDATE fails too, its error is thrown.
V_catch ==
    /\ pc = "v_catch"
    /\ \/ /\ NoFault
          /\ sync_log' = completeSyncLog(sync_log, run.syncLogId, Len(run.records),
                                         run.changed, run.errors, run.errorMessage)
          /\ run' = [run EXCEPT !.raised = run.errorMessage]
       \/ /\ Fault
          /\ run' = [run EXCEPT !.raised = "completeSyncLog failed"]
          /\ UNCHANGED sync_log
    /\ pc' = "raised"
    /\ UNCHANGED <<apart, syncType, config, tables, review_queue, match_log,
                   runs, matches, resolves, chg>>

\* ------------------------------------------------------ inspections driver

\* processInspectionsSync(records) is called: createSyncLog('inspections'),
\* outside the try block.
processInspectionsSync(records) ==
    /\ syncType = "inspections"
    /\ pc \in {"idle", "done", "raised"}
    /\ runs < MaxRuns
    /\ runs' = runs + 1
    /\ chg' = NoChange
    /\ \/ /\ NoFault
          /\ sync_log' = createSyncLog(sync_log, "inspections")
          /\ run' = [BeginRun(records, inspection_state) EXCEPT !.syncLogId = Len(sync_log) + 1]
          /\ pc' = "i_isTableEmpty"
       \/ /\ Fault
          /\ run' = [BeginRun(records, inspection_state) EXCEPT !.raised = "query failed"]
          /\ pc' = "raised"
          /\ UNCHANGED sync_log
    /\ UNCHANGED <<apart, syncType, config, tables, review_queue, match_log, matches, resolves>>

\* const isInitialSync = await isTableEmpty('inspection_state')
I_isTableEmpty ==
    /\ pc = "i_isTableEmpty"
    /\ \/ /\ NoFault
          /\ run' = [run EXCEPT !.isInitialSync = isTableEmpty(inspection_state)]
          /\ pc' = IF isTableEmpty(inspection_state) THEN "i_initialUpsert" ELSE "i_diff"
       \/ ToCatch("i_catch")
    /\ UNCHANGED <<apart, syncType, config, tables, sync_log, review_queue, match_log,
                   runs, matches, resolves, chg>>

\* Initial sync: await upsertInspectionState(records)
I_initialUpsert ==
    /\ pc = "i_initialUpsert"
    /\ \/ /\ NoFault
          /\ inspection_state' = upsertInspectionState(run.records, inspection_state, runs)
          /\ run' = [run EXCEPT !.upserts = @ + 1]
          /\ pc' = "i_initialComplete"
       \/ ToCatch("i_catch") /\ UNCHANGED inspection_state
    /\ UNCHANGED <<apart, syncType, config, violation_state, permit_state, sync_log,
                   review_queue, match_log, runs, matches, resolves, chg>>

\* Initial sync: await completeSyncLog(id, records.length, records.length, 0); return
I_initialComplete ==
    /\ pc = "i_initialComplete"
    /\ \/ /\ NoFault
          /\ sync_log' = completeSyncLog(sync_log, run.syncLogId, Len(run.records),
                                         Len(run.records), 0, NullStr)
          /\ pc' = "done"
          /\ UNCHANGED run
       \/ ToCatch("i_catch") /\ UNCHANGED sync_log
    /\ UNCHANGED <<apart, syncType, config, tables, review_queue, match_log,
                   runs, matches, resolves, chg>>

\* const changes = await diffInspections(records)
I_diff ==
    /\ pc = "i_diff"
    /\ \/ LET changes == diffInspections(run.records, inspection_state)
          IN /\ NoFault
             /\ run' = [run EXCEPT !.changes = changes, !.i = 1, !.diffCalls = @ + 1]
             /\ pc' = IF changes = <<>> THEN "i_upsert" ELSE "i_change"
       \/ ToCatch("i_catch")
    /\ UNCHANGED <<apart, syncType, config, tables, sync_log, review_queue, match_log,
                   runs, matches, resolves, chg>>

\* processInspectionChange that skips new inspections as the violations
\* driver skips new violations.
processInspectionChangeUpdatedOnly ==
    /\ pc = "i_change"
    /\ chg' = BeginChange(CurrentChange.uniqueKey)
    /\ LET r0 == [run EXCEPT !.actionCalls = @ + 1]
       IN IF CurrentChange.isNew \/ dryRunTickets
          THEN NextChangeFrom(r0, TRUE, "i_change", "i_upsert")
          ELSE /\ pc' = "i_findTicketsByCaseNo"
               /\ run' = r0
    /\ UNCHANGED <<apart, syncType, config, tables, sync_log, review_queue, match_log,
                   runs, matches, resolves, faults>>

\* processInspectionChange(change) up to its first await: a dry run returns
\* at once, otherwise the linked tickets are looked up (new or not).
processInspectionChange ==
    /\ pc = "i_change"
    /\ chg' = BeginChange(CurrentChange.uniqueKey)
    /\ LET r0 == [run EXCEPT !.actionCalls = @ + 1]
       IN IF dryRunTickets
          THEN NextChangeFrom(r0, TRUE, "i_change", "i_upsert")
          ELSE /\ pc' = "i_findTicketsByCaseNo"
               /\ run' = r0
    /\ UNCHANGED <<apart, syncType, config, tables, sync_log, review_queue, match_log,
                   runs, matches, resolves, faults>>

\* const tickets = await findTicketsByCaseNo(record.caseNo): no ticket ->
\* return; an error leaves processInspectionChange.
I_findTicketsByCaseNo ==
    /\ pc = "i_findTicketsByCaseNo"
    /\ LET c == Awaited("findTicketsByCaseNo")
       IN \/ \E tickets \in {<<>>, <<1>>, <<1, 2>>} :
                /\ NoFault
                /\ chg' = [c EXCEPT !.tickets = tickets, !.n = 1]
                /\ IF tickets = <<>>
                   THEN NextChange(TRUE, "i_change", "i_upsert")
                   ELSE pc' = "i_addTicketComment" /\ UNCHANGED run
          \/ ChangeThrows(c, "i_change", "i_upsert")
    /\ UNCHANGED <<apart, syncType, config, tables, sync_log, review_queue, match_log,
                   runs, matches, resolves>>

\* The comment loop without its try/catch: a failed comment leaves
\* processInspectionChange.
I_addTicketCommentUncaught ==
    /\ pc = "i_addTicketComment"
    /\ LET ticket == chg.tickets[chg.n]
           c == [Awaited("addTicketComment") EXCEPT !.n = @ + 1]
           last == chg.n = Len(chg.tickets)
       IN \/ /\ NoFault /\ chg' = [c EXCEPT !.commented = Append(@, ticket)]
             /\ IF last
                THEN NextChange(TRUE, "i_change", "i_upsert")
                ELSE pc' = "i_addTicketComment" /\ UNCHANGED run
          \/ ChangeThrows(c, "i_change", "i_upsert")
    /\ UNCHANGED <<apart, syncType, config, tables, sync_log, review_queue, match_log,
                   runs, matches, resolves>>

\* for (const ticket of tickets) try { await addTicketComment(...) } catch
\* { log }: a failed comment is logged and the loop goes on.
I_addTicketComment ==
    /\ pc = "i_addTicketComment"
    /\ LET ticket == chg.tickets[chg.n]
           c == [Awaited("addTicketComment") EXCEPT !.n = @ + 1]
           last == chg.n = Len(chg.tickets)
       IN /\ \/ NoFault /\ chg' = [c EXCEPT !.commented = Append(@, ticket)]
             \/ Fault /\ chg' = c
          /\ IF last
             THEN NextChange(TRUE, "i_change", "i_upsert")
             ELSE pc' = "i_addTicketComment" /\ UNCHANGED run
    /\ UNCHANGED <<apart, syncType, config, tables, sync_log, review_queue, match_log,
                   runs, matches, resolves>>

\* await upsertInspectionState(records)
I_upsert ==
    /\ pc = "i_upsert"
    /\ \/ /\ NoFault
          /\ inspection_state' = upsertInspectionState(run.records, inspection_state, runs)
          /\ run' = [run EXCEPT !.upserts = @ + 1]
          /\ pc' = "i_complete"
       \/ ToCatch("i_catch") /\ UNCHANGED inspection_state
    /\ UNCHANGED <<apart, syncType, config, violation_state, permit_state, sync_log,
                   review_queue, match_log, runs, matches, resolves, chg>>

\* await completeSyncLog(id, records.length, changed, errors)
I_complete ==
    /\ pc = "i_complete"
    /\ \/ /\ NoFault
          /\ sync_log' = completeSyncLog(sync_log, run.syncLogId, Len(run.records),
                                         run.changed, run.errors, NullStr)
          /\ pc' = "done"
          /\ UNCHANGED run
       \/ ToCatch("i_catch") /\ UNCHANGED sync_log
    /\ UNCHANGED <<apart, syncType, config, tables, review_queue, match_log,
                   runs, matches, resolves, chg>>

\* catch (err): await completeSyncLog(..., errorMessage); throw err
I_catch ==
    /\ pc = "i_catch"
    /\ \/ /\ NoFault
          /\ sync_log' = completeSyncLog(sync_log, run.syncLogId, Len(run.records),
                                         run.changed, run.errors, run.errorMessage)
          /\ run' = [run EXCEPT !.raised = run.errorMessage]
       \/ /\ Fault
          /\ run' = [run EXCEPT !.raised = "completeSyncLog failed"]
          /\ UNCHANGED sync_log
    /\ pc' = "raised"
    /\ UNCHANGED <<apart, syncType, config, tables, review_queue, match_log,
                   runs, matches, resolves, chg>>

\* ---------------------------------------------------------- permits driver

\* processPermitsSync(records) is called: createSyncLog('permits'), outside
\* the try block; then sortPermitsLatestFirst(records).
processPermitsSync(records) ==
    /\ syncType = "permits"
    /\ pc \in {"idle", "done", "raised"}
    /\ runs < MaxRuns
    /\ runs' = runs + 1
    /\ chg' = NoChange
    /\ \/ /\ NoFault
          /\ sync_log' = createSyncLog(sync_log, "permits")
          /\ run' = [BeginRun(records, permit_state) EXCEPT
                        !.syncLogId = Len(sync_log) + 1,
                        !.records = sortPermitsLatestFirst(records)]
          /\ pc' = "p_initializePermitCaches"
       \/ /\ Fault
          /\ run' = [BeginRun(records, permit_state) EXCEPT !.raised = "query failed"]
          /\ pc' = "raised"
          /\ UNCHANGED sync_log
    /\ UNCHANGED <<apart, syncType, config, tables, review_queue, match_log, matches, resolves>>

\* await initializePermitCaches()
P_initializePermitCaches ==
    /\ pc = "p_initializePermitCaches"
    /\ \/ NoFault /\ pc' = "p_isTableEmpty" /\ UNCHANGED run
       \/ ToCatch("p_catch")
    /\ UNCHANGED <<apart, syncType, config, tables, sync_log, review_queue, match_log,
                   runs, matches, resolves, chg>>

\* The records of the processing batch that starts at offset batchIdx.
ProcessingBatch(r) ==
    SubSeq(r.records, r.batchIdx + 1,
           IF r.batchIdx + PROCESSING_BATCH_SIZE < Len(r.records)
           THEN r.batchIdx + PROCESSING_BATCH_SIZE ELSE Len(r.records))

\* The records of the API batch that starts at offset i0 of the processing batch.
ApiBatch(r) ==
    SubSeq(ProcessingBatch(r), r.i0 + 1,
           IF r.i0 + BATCH_SIZE < Len(ProcessingBatch(r))
           THEN r.i0 + BATCH_SIZE ELSE Len(ProcessingBatch(r)))

\* bulkProcessNewPermits(batch) starts.
BeginBulk(r) == [r EXCEPT !.i0 = 0, !.totalCreated = 0, !.totalFailed = 0, !.requests = <<>>]

\* const isInitialSync = await isTableEmpty('permit_state'); a dry run of an
\* initial sync only upserts, a live one imports batch by batch, an
\* incremental one goes to the diff.
P_isTableEmpty ==
    /\ pc = "p_isTableEmpty"
    /\ \/ /\ NoFault
          /\ LET isInitialSync == isTableEmpty(permit_state)
                 r == [run EXCEPT !.isInitialSync = isInitialSync]
             IN IF ~isInitialSync
                THEN run' = r /\ pc' = "p_diff"
                ELSE IF dryRunPermits
                     THEN run' = [r EXCEPT !.path = "initial_dry"] /\ pc' = "p_upsert"
                     ELSE /\ run' = BeginBulk([r EXCEPT !.path = "initial", !.batchIdx = 0])
                          /\ pc' = IF Len(r.records) = 0 THEN "p_complete" ELSE "p_convertBatch"
       \/ ToCatch("p_catch")
    /\ UNCHANGED <<apart, syncType, config, tables, sync_log, review_queue, match_log,
                   runs, matches, resolves, chg>>

\* The end of one API batch of bulkProcessNewPermits: the next API batch, or
\* the return to processPermitsSync (changed += created, errors += failed)
\* which then awaits upsertPermitState(batch).
AdvanceApiBatch(r) ==
    LET r1 == [r EXCEPT !.i0 = @ + BATCH_SIZE]
    IN IF r1.i0 < Len(ProcessingBatch(r))
       THEN run' = r1 /\ pc' = "p_convertBatch"
       ELSE /\ run' = [r1 EXCEPT !.changed = @ + r.totalCreated,
                                  !.errors = @ + r.totalFailed]
            /\ pc' = "p_batchUpsert"

\* await Promise.all(batch.map(convertPermitRecordToApiRequest)): every
\* conversion succeeds or fails on its own; failures are counted, and a
\* batch with no successful conversion is skipped.
P_convertBatch ==
    /\ pc = "p_convertBatch"
    /\ \E failures \in SUBSET (1..Len(ApiBatch(run))) :
          LET requests == [n \in 1..Len(ApiBatch(run)) |-> n \notin failures]
              r == [run EXCEPT !.requests = requests,
                               !.totalFailed = @ + Cardinality(failures)]
          IN /\ faults + Cardinality(failures) <= FaultBudget
             /\ faults' = faults + Cardinality(failures)
             /\ IF Cardinality(failures) = Len(requests)
                THEN AdvanceApiBatch(r)
                ELSE run' = r /\ pc' = "p_bulkCreatePermits"
    /\ UNCHANGED <<apart, syncType, config, tables, sync_log, review_queue, match_log,
                   runs, matches, resolves, chg>>

\* await bulkCreatePermits(successfulConversions): the response counts the
\* permits created and failed; a thrown error fails all of them.
P_bulkCreatePermits ==
    /\ pc = "p_bulkCreatePermits"
    /\ LET m == Len(SelectSeq(run.requests, LAMBDA ok : ok))
       IN \/ \E created \in 0..m :
                /\ NoFault
                /\ AdvanceApiBatch([run EXCEPT !.totalCreated = @ + created,
                                               !.totalFailed = @ + (m - created)])
          \/ /\ Fault
             /\ AdvanceApiBatch([run EXCEPT !.totalFailed = @ + m])
    /\ UNCHANGED <<apart, syncType, config, tables, sync_log, review_queue, match_log,
                   runs, matches, resolves, chg>>

\* await upsertPermitState(batch); clearPermitCaches(); next processing batch
\* or the completion of the log.
P_batchUpsert ==
    /\ pc = "p_batchUpsert"
    /\ \/ /\ NoFault
          /\ permit_state' = upsertPermitState(ProcessingBatch(run), permit_state, runs)
          /\ LET r == [run EXCEPT !.upserts = @ + 1, !.batchIdx = @ + PROCESSING_BATCH_SIZE]
             IN IF r.batchIdx < Len(r.records)
                THEN run' = BeginBulk(r) /\ pc' = "p_convertBatch"
                ELSE run' = r /\ pc' = "p_complete"
       \/ ToCatch("p_catch") /\ UNCHANGED permit_state
    /\ UNCHANGED <<apart, syncType, config, violation_state, inspection_state, sync_log,
                   review_queue, match_log, runs, matches, resolves, chg>>

\* const changes = await diffPermits(sortedRecords): no change -> refresh the
\* state only; dry run -> state only; else the per-Change loop.
P_diff ==
    /\ pc = "p_diff"
    /\ \/ LET changes == diffPermits(run.records, permit_state)
              r == [run EXCEPT !.changes = changes, !.i = 1, !.diffCalls = @ + 1]
          IN /\ NoFault
             /\ IF changes = <<>>
                THEN run' = [r EXCEPT !.path = "zero"] /\ pc' = "p_upsert"
                ELSE IF dryRunPermits
                     THEN run' = [r EXCEPT !.path = "dry"] /\ pc' = "p_upsert"
                     ELSE run' = [r EXCEPT !.path = "loop"] /\ pc' = "p_change"
       \/ ToCatch("p_catch")
    /\ UNCHANGED <<apart, syncType, config, tables, sync_log, review_queue, match_log,
                   runs, matches, resolves, chg>>

\* const result = await processPermitChange(change), up to its first await.
processPermitChange ==
    /\ pc = "p_change"
    /\ chg' = BeginChange(CurrentChange.permitNo)
    /\ run' = [run EXCEPT !.actionCalls = @ + 1]
    /\ pc' = "p_convertPermitRecordToApiRequest"
    /\ UNCHANGED <<apart, syncType, config, tables, sync_log, review_queue, match_log,
                   runs, matches, resolves, faults>>

\* The catch block without the retryCount === 0 test.
PermitCatchAlwaysRetries(c, kind) ==
    IF kind = "stale"
    THEN Fault /\ chg' = c /\ pc' = "p_retryInitializePermitCaches" /\ UNCHANGED run
    ELSE ChangeThrows(c, "p_change", "p_upsert")

\* The catch block of processPermitChange: a stale-cache error on the first
\* attempt clears the caches and awaits initializePermitCaches(); any other
\* error, and any error of the retry, is thrown to the driver's loop.
PermitCatch(c, kind) ==
    IF c.retryCount = 0 /\ kind = "stale"
    THEN Fault /\ chg' = c /\ pc' = "p_retryInitializePermitCaches" /\ UNCHANGED run
    ELSE ChangeThrows(c, "p_change", "p_upsert")

\* await convertPermitRecordToApiRequest(record)
P_convertPermitRecordToApiRequest ==
    /\ pc = "p_convertPermitRecordToApiRequest"
    /\ LET c == Awaited("convertPermitRecordToApiRequest")
       IN \/ /\ NoFault
             /\ chg' = [c EXCEPT !.target = IF CurrentChange.isNew THEN NullId
                                            ELSE CurrentChange.threefoldPermitId]
             /\ pc' = IF CurrentChange.isNew THEN "p_getPermitByNumber" ELSE "p_updatePermit"
             /\ UNCHANGED run
          \/ \E kind \in ErrorKinds : PermitCatch(c, kind)
    /\ UNCHANGED <<apart, syncType, config, tables, sync_log, review_queue, match_log,
                   runs, matches, resolves>>

\* A lookup whose answer is not looked at: the create call follows anyway.
P_getPermitByNumberIgnored ==
    /\ pc = "p_getPermitByNumber"
    /\ LET c == Awaited("getPermitByNumber")
       IN \/ \E existing \in {NullId} \cup PermitIds :
                /\ NoFault
                /\ chg' = [c EXCEPT !.target = existing]
                /\ pc' = "p_createPermit"
                /\ UNCHANGED run
          \/ \E kind \in ErrorKinds : PermitCatch(c, kind)
    /\ UNCHANGED <<apart, syncType, config, tables, sync_log, review_queue, match_log,
                   runs, matches, resolves>>

\* const existing = await getPermitByNumber(record.permitNo)
P_getPermitByNumber ==
    /\ pc = "p_getPermitByNumber"
    /\ LET c == Awaited("getPermitByNumber")
       IN \/ \E existing \in {NullId} \cup PermitIds :
                /\ NoFault
                /\ chg' = [c EXCEPT !.target = existing]
                /\ pc' = IF existing # NullId THEN "p_updatePermit" ELSE "p_createPermit"
                /\ UNCHANGED run
          \/ \E kind \in ErrorKinds : PermitCatch(c, kind)
    /\ UNCHANGED <<apart, syncType, config, tables, sync_log, review_queue, match_log,
                   runs, matches, resolves>>

\* const created = await createPermit(request); an 'already exists' or
\* 'constraint' error falls back to updatePermit(record.permitNo, request).
P_createPermit ==
    /\ pc = "p_createPermit"
    /\ LET c == Awaited("createPermit")
       IN \/ \E id \in PermitIds :
                /\ NoFault
                /\ chg' = [c EXCEPT !.threefoldPermitId = id]
                /\ pc' = "p_updatePermitThreefoldIds"
                /\ UNCHANGED run
          \/ Fault /\ chg' = c /\ pc' = "p_updatePermit" /\ UNCHANGED run
          \/ \E kind \in ErrorKinds \ {"exists"} : PermitCatch(c, kind)
    /\ UNCHANGED <<apart, syncType, config, tables, sync_log, review_queue, match_log,
                   runs, matches, resolves>>

\* const updated = await updatePermit(existing.id | threefoldPermitId ||
\* record.permitNo, request)
P_updatePermit ==
    /\ pc = "p_updatePermit"
    /\ LET c == Awaited("updatePermit")
       IN \/ \E id \in PermitIds :
                /\ chg.target # NullId => id = chg.target
                /\ NoFault
                /\ chg' = [c EXCEPT !.threefoldPermitId = id]
                /\ pc' = "p_updatePermitThreefoldIds"
                /\ UNCHANGED run
          \/ \E kind \in ErrorKinds : PermitCatch(c, kind)
    /\ UNCHANGED <<apart, syncType, config, tables, sync_log, review_queue, match_log,
                   runs, matches, resolves>>

\* clearPermitCaches(); await initializePermitCaches();
\* return processPermitChange(change, retryCount + 1)
P_retryInitializePermitCaches ==
    /\ pc = "p_retryInitializePermitCaches"
    /\ LET c == Awaited("initializePermitCaches")
       IN \/ /\ NoFault
             /\ chg' = [c EXCEPT !.retryCount = @ + 1]
             /\ pc' = "p_convertPermitRecordToApiRequest"
             /\ UNCHANGED run
          \/ ChangeThrows(c, "p_change", "p_upsert")
    /\ UNCHANGED <<apart, syncType, config, tables, sync_log, review_queue, match_log,
                   runs, matches, resolves>>

\* await updatePermitThreefoldIds(permitNo, result...); changed++
P_updatePermitThreefoldIds ==
    /\ pc = "p_updatePermitThreefoldIds"
    /\ LET c == Awaited("updatePermitThreefoldIds")
       IN \/ /\ NoFault
             /\ permit_state' = updatePermitThreefoldIds(permit_state, chg.key,
                                                         chg.threefoldPermitId, 1)
             /\ chg' = c
             /\ NextChange(TRUE, "p_change", "p_upsert")
          \/ ChangeThrows(c, "p_change", "p_upsert") /\ UNCHANGED permit_state
    /\ UNCHANGED <<apart, syncType, config, violation_state, inspection_state, sync_log,
                   review_queue, match_log, runs, matches, resolves>>

\* await upsertPermitState(sortedRecords)
P_upsert ==
    /\ pc = "p_upsert"
    /\ \/ /\ NoFault
          /\ permit_state' = upsertPermitState(run.records, permit_state, runs)
          /\ run' = [run EXCEPT !.upserts = @ + 1]
          /\ pc' = "p_complete"
       \/ ToCatch("p_catch") /\ UNCHANGED permit_state
    /\ UNCHANGED <<apart, syncType, config, violation_state, inspection_state, sync_log,
                   review_queue, match_log, runs, matches, resolves, chg>>

\* await completeSyncLog(id, sortedRecords.length, c, e): (n, 0) after a dry
\* initial sync, (0, 0) when nothing changed, (changes.length, 0) after a dry
\* run, else (changed, errors).
P_complete ==
    /\ pc = "p_complete"
    /\ \/ LET n == Len(run.records)
              c == CASE run.path = "initial_dry" -> n
                     [] run.path = "zero" -> 0
                     [] run.path = "dry" -> Len(run.changes)
                     [] OTHER -> run.changed
              e == IF run.path \in {"initial", "loop"} THEN run.errors ELSE 0
          IN /\ NoFault
             /\ sync_log' = completeSyncLog(sync_log, run.syncLogId, n, c, e, NullStr)
             /\ pc' = "done"
             /\ UNCHANGED run
       \/ ToCatch("p_catch") /\ UNCHANGED sync_log
    /\ UNCHANGED <<apart, syncType, config, tables, review_queue, match_log,
                   runs, matches, resolves, chg>>

\* catch (err): clearPermitCaches(); await completeSyncLog(id, records.length,
\* changed, errors, errorMessage); throw err
P_catch ==
    /\ pc = "p_catch"
    /\ \/ /\ NoFault
          /\ sync_log' = completeSyncLog(sync_log, run.syncLogId, Len(run.input),
                                         run.changed, run.errors, run.errorMessage)
          /\ run' = [run EXCEPT !.raised = run.errorMessage]
       \/ /\ Fault
          /\ run' = [run EXCEPT !.raised = "completeSyncLog failed"]
          /\ UNCHANGED sync_log
    /\ pc' = "raised"
    /\ UNCHANGED <<apart, syncType, config, tables, review_queue, match_log,
                   runs, matches, resolves, chg>>

\* ------------------------------------- matcher invoked on its own, resolution

\* matchViolationToTicket(violation) is called for a violation on its own.
MatchInvoke(violation) ==
    /\ pc \in {"idle", "matched"}
    /\ matches < MaxMatches
    /\ matches' = matches + 1
    /\ chg' = [NoChange EXCEPT !.key = violation.externalId, !.caller = "direct"]
    /\ pc' = "m_getMatchedTicketId"
    /\ UNCHANGED <<apart, syncType, config, tables, sync_log, review_queue, match_log,
                   runs, resolves, faults, run>>

\* A reviewer resolves a queue item: resolveReviewItem(id, ticketId, resolvedBy).
ResolveReviewItem(id, ticketId) ==
    /\ pc \in {"idle", "done", "raised", "matched"}
    /\ resolves < MaxResolves
    /\ id \in 1..Len(review_queue)
    /\ review_queue' = resolveReviewItem(review_queue, id, ticketId)
    /\ resolves' = resolves + 1
    /\ UNCHANGED <<apart, syncType, config, tables, sync_log, match_log, runs, matches,
                   faults, pc, run, chg>>

\* ------------------------------------------------- initial import by counts

\* Before processPermitsSync is called: no record, no log row.
NoImport == [pc |-> "idle", n |-> 0, batchIdx |-> 0, i0 |-> 0, converted |-> 0,
             totalCreated |-> 0, totalFailed |-> 0, changed |-> 0, errors |-> 0,
             conversionFailures |-> 0, bulkFailures |-> 0, failed |-> 0,
             largestCall |-> 0, submittedTo |-> 0, twice |-> FALSE,
             handled |-> 0, upserted |-> 0,
             log |-> [completed |-> FALSE, total_records |-> 0, changed_records |-> 0,
                      errors |-> 0, error_message |-> NullStr]]

\* ------------------------------------------------------------------ webhook

\* No delivery has been received.
NoDelivery == [pc |-> "idle", subject |-> <<>>, attachments |-> <<>>, k |-> 0,
               started |-> {}, running |-> {}, ended |-> {}, threw |-> {},
               status |-> 0]

\* ----------------------------------------------------------- taxonomy cache

Converters == 1..MaxConverters

\* The module is loaded: permitTypesCache = null, no conversion has started,
\* the external system has no type by the name.
NoTaxonomy == [cache |-> "null", external |-> 0, conv |-> [c \in Converters |-> "idle"],
               clears |-> 0, failed |-> 0]

\* --------------------------------------------------- concurrent invocations

Invocations == 1..MaxInvocations

\* No matcher invocation is in flight.
NoInvocations == [inv |-> [i \in Invocations |-> [pc |-> "idle", key |-> NullStr]],
                  failed |-> 0]

\* ------------------------------------------------------- external gateway

\* The two gateway modules; each has its own lastRequestTime.
GatewayModules == {"threefold", "threefold-permits"}

\* threefold.ts: minimum ms between API calls.
MIN_REQUEST_INTERVAL_MS == 200

\* threefold-permits.ts: minimum ms between API calls.
MIN_REQUEST_INTERVAL_MS_PERMITS == 110

minRequestInterval(module) ==
    IF module = "threefold" THEN MIN_REQUEST_INTERVAL_MS ELSE MIN_REQUEST_INTERVAL_MS_PERMITS

\* apiRequest(url, options, maxRetries = 3)
maxRetries == 3

\* The step of the clock.
ClockStep == 55

Callers == 1..MaxCallers

\* The HTTP statuses the ticketing system answers with.
Statuses == {200, 429, 500, 503}

\* A number or NaN.
Num(n) == [nan |-> FALSE, ms |-> n]

NaN == [nan |-> TRUE, ms |-> 0]

\* The Retry-After header of a 429: absent, delta-seconds, or an HTTP date.
RetryAfterHeaders ==
    {[present |-> FALSE, numeric |-> FALSE, seconds |-> 0],
     [present |-> TRUE, numeric |-> FALSE, seconds |-> 0],
     [present |-> TRUE, numeric |-> TRUE, seconds |-> 0],
     [present |-> TRUE, numeric |-> TRUE, seconds |-> 30],
     [present |-> TRUE, numeric |-> TRUE, seconds |-> 300]}

\* The X-RateLimit-Reset header of a 429: absent, not a date, or a date
\* `untilReset` ms after Date.now().
ResetHeaders ==
    {[present |-> FALSE, date |-> FALSE, untilReset |-> 0],
     [present |-> TRUE, date |-> FALSE, untilReset |-> 0]} \cup
    [present : {TRUE}, date : {TRUE}, untilReset : {-5000, 30000, 119500, 200000}]

\* handleRateLimit without the cap at two minutes.
handleRateLimitNoCap(retryAfter, resetTime) ==
    IF retryAfter.present
    THEN IF retryAfter.numeric THEN Num(retryAfter.seconds * 1000) ELSE NaN
    ELSE IF resetTime.present /\ resetTime.date
              /\ resetTime.untilReset > 0 /\ resetTime.untilReset < 120000
         THEN Num(resetTime.untilReset + 1000)
         ELSE Num(60000)

\* handleRateLimit: waitMs is 60000 by default, parseInt(Retry-After) * 1000
\* if the header is there (NaN for a date), else the time until the reset
\* plus 1000 if that time is between 0 and 120000; then
\* Math.min(waitMs, 120000), which leaves NaN as it is.
handleRateLimit(retryAfter, resetTime) ==
    LET waitMs == IF retryAfter.present
                  THEN IF retryAfter.numeric THEN Num(retryAfter.seconds * 1000) ELSE NaN
                  ELSE IF resetTime.present /\ resetTime.date
                            /\ resetTime.untilReset > 0 /\ resetTime.untilReset < 120000
                       THEN Num(resetTime.untilReset + 1000)
                       ELSE Num(60000)
    IN IF ~waitMs.nan /\ waitMs.ms > 120000 THEN Num(120000) ELSE waitMs

\* setTimeout(resolve, ms): a delay that is NaN or below 1 is taken as 1.
TimerDelay(waitMs) == IF waitMs.nan \/ waitMs.ms < 1 THEN 1 ELSE waitMs.ms

RECURSIVE SumCalls(_)
SumCalls(cs) ==
    IF cs = {} THEN 0
    ELSE LET c == CHOOSE x \in cs : TRUE IN callers[c].calls + SumCalls(cs \ {c})

\* A caller that is in no gateway call.
IdleCaller == [module |-> NullStr, pc |-> "idle", timer |-> 0, attempt |-> 0,
               requests |-> 0, status |-> 0, waitMs |-> Num(0), calls |-> 0,
               result |-> NullStr]

\* The gateway before any call: lastRequestTime = 0, so the first request of
\* a module does not wait.
GatewayAtRest ==
    /\ elapsed = [m \in GatewayModules |-> minRequestInterval(m)]
    /\ callers = [c \in Callers |-> IdleCaller]
    /\ shortestGap = [m \in GatewayModules |-> minRequestInterval(m)]

\* The end of rateLimitedRequest and the fetch that follows its await:
\* lastRequestTime = Date.now(), and the request goes out.
SendRequest(c, caller) ==
    /\ elapsed' = [elapsed EXCEPT ![caller.module] = 0]
    /\ shortestGap' = [shortestGap EXCEPT ![caller.module] =
                           IF elapsed[caller.module] < @ THEN elapsed[caller.module] ELSE @]
    /\ callers' = [callers EXCEPT ![c] = [caller EXCEPT !.pc = "fetch", !.requests = @ + 1]]

\* rateLimitedRequest up to its await: elapsed = Date.now() - lastRequestTime;
\* below the minimum interval the caller sleeps for the rest of it.
rateLimitedRequest(c, caller) ==
    IF elapsed[caller.module] < minRequestInterval(caller.module)
    THEN /\ callers' = [callers EXCEPT ![c] =
                 [caller EXCEPT !.pc = "rateLimitedRequest",
                                !.timer = minRequestInterval(caller.module)
                                              - elapsed[caller.module]]]
         /\ UNCHANGED <<elapsed, shortestGap>>
    ELSE SendRequest(c, caller)

\* The caller's call ends: the response is returned, or an error is thrown.
CallEnds(c, caller, result) ==
    /\ callers' = [callers EXCEPT ![c] =
            [caller EXCEPT !.pc = "idle", !.attempt = 0, !.result = result]]
    /\ UNCHANGED <<elapsed, shortestGap>>

\* The caller sleeps for waitMs before its next attempt.
Backoff(c, caller, waitMs) ==
    /\ callers' = [callers EXCEPT ![c] =
            [caller EXCEPT !.pc = "backoff", !.waitMs = waitMs, !.timer = TimerDelay(waitMs)]]
    /\ UNCHANGED <<elapsed, shortestGap>>

\* The gateway calls started so far.
CallsMade == SumCalls(Callers)

\* A caller starts a call of a gateway module: addTicketComment (threefold.ts)
\* or createPermit, which goes through apiRequest (threefold-permits.ts).
G_call(c, module) ==
    /\ callers[c].pc = "idle"
    /\ CallsMade < MaxCalls
    /\ rateLimitedRequest(c, [IdleCaller EXCEPT !.module = module,
                                                !.calls = callers[c].calls + 1,
                                                !.result = "pending"])

\* The timer of rateLimitedRequest fires.
G_rateLimitedRequestWakes(c) ==
    /\ callers[c].pc = "rateLimitedRequest"
    /\ callers[c].timer = 0
    /\ SendRequest(c, callers[c])

\* threefold.ts, addTicketComment: const response = await fetch(...);
\* if (!response.ok) throw.
G_fetchResponds(c, status) ==
    /\ callers[c].pc = "fetch"
    /\ callers[c].module = "threefold"
    /\ CallEnds(c, [callers[c] EXCEPT !.status = status],
                IF status = 200 THEN "returned" ELSE "threw")

\* threefold-permits.ts, apiRequest: const response = await fetch(...).  A 429
\* before the last attempt waits as handleRateLimit says, a 500 before the
\* last attempt waits (attempt + 1) * 2000, on the last attempt both throw;
\* any other response is returned, and createPermit throws if it is not ok.
G_apiRequestResponds(c, status, retryAfter, resetTime) ==
    /\ callers[c].pc = "fetch"
    /\ callers[c].module = "threefold-permits"
    /\ LET caller == [callers[c] EXCEPT !.status = status]
       IN CASE status = 429 ->
                 IF caller.attempt < maxRetries - 1
                 THEN Backoff(c, caller, handleRateLimit(retryAfter, resetTime))
                 ELSE CallEnds(c, caller, "threw")
            [] status = 500 ->
                 IF caller.attempt < maxRetries - 1
                 THEN Backoff(c, caller, Num((caller.attempt + 1) * 2000))
                 ELSE CallEnds(c, caller, "threw")
            [] OTHER ->
                 CallEnds(c, caller, IF status = 200 THEN "returned" ELSE "threw")

\* The backoff timer fires: continue, attempt++, await rateLimitedRequest().
G_backoffEnds(c) ==
    /\ callers[c].pc = "backoff"
    /\ callers[c].timer = 0
    /\ rateLimitedRequest(c, [callers[c] EXCEPT !.attempt = @ + 1, !.waitMs = Num(0)])

\* d ms pass: every module's elapsed time grows, every timer runs down.
TimePasses(d) ==
    /\ elapsed' = [m \in GatewayModules |->
                       IF elapsed[m] + d < minRequestInterval(m)
                       THEN elapsed[m] + d ELSE minRequestInterval(m)]
    /\ callers' = [c \in Callers |->
                       [callers[c] EXCEPT !.timer = IF @ > d THEN @ - d ELSE 0]]
    /\ UNCHANGED shortestGap

\* Time passes while no timer is pending.
G_tick ==
    /\ \A c \in Callers : callers[c].timer = 0
    /\ \E m \in GatewayModules : elapsed[m] < minRequestInterval(m)
    /\ TimePasses(ClockStep)

\* Time passes until a timer is due.
G_timerDue(c) ==
    /\ callers[c].timer > 0
    /\ TimePasses(callers[c].timer)

\* ----------------------------------------------------------- specification

\* The flags a record type's driver reads; the others are left off.
ConfigsFor(type) ==
    [ticketUpdatesEnabled : IF type = "permits" THEN {FALSE} ELSE BOOLEAN,
     permitUpdatesEnabled : IF type = "permits" THEN BOOLEAN ELSE {FALSE},
     llmMatchingEnabled : IF type = "violations" THEN BOOLEAN ELSE {FALSE}]

Init ==
    /\ syncType \in SyncTypes
    /\ config \in ConfigsFor(syncType)
    /\ violation_state = <<>>
    /\ inspection_state = <<>>
    /\ permit_state = <<>>
    /\ sync_log = <<>>
    /\ review_queue = <<>>
    /\ match_log = <<>>
    /\ runs = 0
    /\ matches = 0
    /\ resolves = 0
    /\ faults = 0
    /\ pc = "idle"
    /\ run = NoRun
    /\ chg = NoChange
    /\ GatewayAtRest
    /\ bulk = NoImport
    /\ delivery = NoDelivery
    /\ taxonomy = NoTaxonomy
    /\ invocations = NoInvocations

Matcher ==
    \/ M_getMatchedTicketId
    \/ M_findTicketByExternalId
    \/ M_setMatchedTicketId_external
    \/ M_fetchTicketsByLocation
    \/ M_callOpenAI
    \/ M_isInReviewQueue
    \/ M_queueForReview
    \/ M_logMatchAttempt
    \/ M_setMatchedTicketId_llm
    \/ M_setTicketExternalId

Next ==
    \/ \E records \in SeqUpTo(ViolationRecord, MaxBatch) : processViolationsSync(records)
    \/ V_isTableEmpty
    \/ V_initialUpsert
    \/ V_initialComplete
    \/ V_diff
    \/ processViolationChange
    \/ Matcher
    \/ V_moveTicketToStep
    \/ V_closeComment
    \/ V_addTicketComment
    \/ V_upsert
    \/ V_complete
    \/ V_catch
    \/ \E records \in SeqUpTo(InspectionRecord, MaxBatch) : processInspectionsSync(records)
    \/ I_isTableEmpty
    \/ I_initialUpsert
    \/ I_initialComplete
    \/ I_diff
    \/ processInspectionChange
    \/ I_findTicketsByCaseNo
    \/ I_addTicketComment
    \/ I_upsert
    \/ I_complete
    \/ I_catch
    \/ \E records \in SeqUpTo(PermitRecord, MaxBatch) : processPermitsSync(records)
    \/ P_initializePermitCaches
    \/ P_isTableEmpty
    \/ P_convertBatch
    \/ P_bulkCreatePermits
    \/ P_batchUpsert
    \/ P_diff
    \/ processPermitChange
    \/ P_convertPermitRecordToApiRequest
    \/ P_getPermitByNumber
    \/ P_createPermit
    \/ P_updatePermit
    \/ P_retryInitializePermitCaches
    \/ P_updatePermitThreefoldIds
    \/ P_upsert
    \/ P_complete
    \/ P_catch

Spec == Init /\ [][Next]_vars

\* The matcher and the review queue on their own: violation_state holds the
\* rows an initial sync of some batch of open violations left (the matcher
\* does not read the status), the matcher is invoked for one
\* violation after another, and a reviewer resolves queue items in between.
InitMatch ==
    /\ syncType = "violations"
    /\ config \in [ticketUpdatesEnabled : {TRUE}, permitUpdatesEnabled : {FALSE},
                    llmMatchingEnabled : BOOLEAN]
    /\ \E records \in SeqUpTo([externalId : Keys, violationStatus : {"OPEN"}], MaxBatch) :
          violation_state = upsertViolationState(records, <<>>, 0)
    /\ inspection_state = <<>>
    /\ permit_state = <<>>
    /\ sync_log = <<>>
    /\ review_queue = <<>>
    /\ match_log = <<>>
    /\ runs = 0
    /\ matches = 0
    /\ resolves = 0
    /\ faults = 0
    /\ pc = "idle"
    /\ run = NoRun
    /\ chg = NoChange
    /\ GatewayAtRest
    /\ bulk = NoImport
    /\ delivery = NoDelivery
    /\ taxonomy = NoTaxonomy
    /\ invocations = NoInvocations

NextMatch ==
    \/ \E violation \in ViolationRecord : MatchInvoke(violation)
    \/ Matcher
    \/ \E id \in 1..MaxMatches, ticketId \in {NullId} \cup Tickets : ResolveReviewItem(id, ticketId)

SpecMatch == InitMatch /\ [][NextMatch]_vars

\* Redelivery: violation_state holds the rows an initial sync of a batch of
\* open violations left and sync_log its completed row; the deployment
\* updates tickets and matches by external id only, and the sender delivers
\* batches one after another, the same one again or another.
InitRedelivery ==
    /\ syncType = "violations"
    /\ config = [ticketUpdatesEnabled |-> TRUE, permitUpdatesEnabled |-> FALSE,
                 llmMatchingEnabled |-> FALSE]
    /\ \E records \in SeqUpTo([externalId : Keys, violationStatus : {"OPEN"}], MaxBatch) :
          /\ records # <<>>
          /\ violation_state = upsertViolationState(records, <<>>, 0)
          /\ sync_log = completeSyncLog(createSyncLog(<<>>, "violations"), 1,
                                        Len(records), Len(records), 0, NullStr)
    /\ inspection_state = <<>>
    /\ permit_state = <<>>
    /\ review_queue = <<>>
    /\ match_log = <<>>
    /\ runs = 0
    /\ matches = 0
    /\ resolves = 0
    /\ faults = 0
    /\ pc = "idle"
    /\ run = NoRun
    /\ chg = NoChange
    /\ GatewayAtRest
    /\ bulk = NoImport
    /\ delivery = NoDelivery
    /\ taxonomy = NoTaxonomy
    /\ invocations = NoInvocations

NextRedelivery ==
    \/ \E records \in SeqUpTo(ViolationRecord, MaxBatch) : processViolationsSync(records)
    \/ V_isTableEmpty
    \/ V_diff
    \/ processViolationChange
    \/ M_getMatchedTicketId
    \/ M_findTicketByExternalId
    \/ M_setMatchedTicketId_external
    \/ V_moveTicketToStep
    \/ V_closeComment
    \/ V_addTicketComment
    \/ V_upsert
    \/ V_complete
    \/ V_catch

SpecRedelivery == InitRedelivery /\ [][NextRedelivery]_vars

\* Matching over several runs: violation_state holds the rows an initial
\* sync of a batch of open violations left, the deployment updates tickets
\* and matches with the classifier, and short batches are delivered one
\* after another.
InitRematch ==
    /\ syncType = "violations"
    /\ config = [ticketUpdatesEnabled |-> TRUE, permitUpdatesEnabled |-> FALSE,
                 llmMatchingEnabled |-> TRUE]
    /\ \E records \in SeqUpTo([externalId : Keys, violationStatus : {"OPEN"}], MaxBatch) :
          /\ records # <<>>
          /\ violation_state = upsertViolationState(records, <<>>, 0)
          /\ sync_log = completeSyncLog(createSyncLog(<<>>, "violations"), 1,
                                        Len(records), Len(records), 0, NullStr)
    /\ inspection_state = <<>>
    /\ permit_state = <<>>
    /\ review_queue = <<>>
    /\ match_log = <<>>
    /\ runs = 0
    /\ matches = 0
    /\ resolves = 0
    /\ faults = 0
    /\ pc = "idle"
    /\ run = NoRun
    /\ chg = NoChange
    /\ GatewayAtRest
    /\ bulk = NoImport
    /\ delivery = NoDelivery
    /\ taxonomy = NoTaxonomy
    /\ invocations = NoInvocations

NextRematch ==
    \/ \E records \in SeqUpTo(ViolationRecord, MaxRematchBatch) : processViolationsSync(records)
    \/ V_isTableEmpty
    \/ V_diff
    \/ processViolationChange
    \/ Matcher
    \/ V_moveTicketToStep
    \/ V_closeComment
    \/ V_addTicketComment
    \/ V_upsert
    \/ V_complete
    \/ V_catch

SpecRematch == InitRematch /\ [][NextRematch]_vars

\* ------------------------------------------- the gateway on its own

driver == <<syncType, config, violation_state, inspection_state, permit_state,
            sync_log, review_queue, match_log, runs, matches, resolves, faults, pc, run, chg>>

InitGateway ==
    /\ syncType = "permits"
    /\ config = [ticketUpdatesEnabled |-> TRUE, permitUpdatesEnabled |-> TRUE,
                 llmMatchingEnabled |-> FALSE]
    /\ violation_state = <<>>
    /\ inspection_state = <<>>
    /\ permit_state = <<>>
    /\ sync_log = <<>>
    /\ review_queue = <<>>
    /\ match_log = <<>>
    /\ runs = 0
    /\ matches = 0
    /\ resolves = 0
    /\ faults = 0
    /\ pc = "idle"
    /\ run = NoRun
    /\ chg = NoChange
    /\ GatewayAtRest
    /\ bulk = NoImport
    /\ delivery = NoDelivery
    /\ taxonomy = NoTaxonomy
    /\ invocations = NoInvocations

NextGateway ==
    \/ \E c \in Callers, module \in GatewayModules : G_call(c, module) /\ UNCHANGED <<driver, bulk, delivery, taxonomy, invocations>>
    \/ \E c \in Callers : G_rateLimitedRequestWakes(c) /\ UNCHANGED <<driver, bulk, delivery, taxonomy, invocations>>
    \/ \E c \in Callers, status \in Statuses : G_fetchResponds(c, status) /\ UNCHANGED <<driver, bulk, delivery, taxonomy, invocations>>
    \/ \E c \in Callers, status \in Statuses, retryAfter \in RetryAfterHeaders,
          resetTime \in ResetHeaders :
            G_apiRequestResponds(c, status, retryAfter, resetTime) /\ UNCHANGED <<driver, bulk, delivery, taxonomy, invocations>>
    \/ \E c \in Callers : G_backoffEnds(c) /\ UNCHANGED <<driver, bulk, delivery, taxonomy, invocations>>
    \/ G_tick /\ UNCHANGED <<driver, bulk, delivery, taxonomy, invocations>>
    \/ \E c \in Callers : G_timerDue(c) /\ UNCHANGED <<driver, bulk, delivery, taxonomy, invocations>>

\* The gateway with its concurrent callers.
SpecGateway == InitGateway /\ [][NextGateway]_vars

\* The same, and a step is taken as long as one can be: timers fire and
\* responses arrive.
SpecGatewayLive == InitGateway /\ [][NextGateway]_vars /\ WF_vars(NextGateway)

\* ------------------------------------------- the initial import on its own

\* The sizes of the imported batch: below, at and above the two batch sizes.
ImportSizes ==
    {0, 1, BATCH_SIZE, BATCH_SIZE + 1, 500, PROCESSING_BATCH_SIZE,
     PROCESSING_BATCH_SIZE + 1, MaxImport}

\* The slices with an API batch that is the whole rest of the processing batch.
SlicesUncapped(b) ==
    LET processing == IF b.batchIdx + PROCESSING_BATCH_SIZE < b.n
                      THEN PROCESSING_BATCH_SIZE ELSE b.n - b.batchIdx
    IN [processing |-> processing, api |-> processing - b.i0]

\* The lengths of sortedRecords.slice(batchIdx, batchIdx + PROCESSING_BATCH_SIZE)
\* and of records.slice(i, i + BATCH_SIZE).
Slices(b) ==
    LET processing == IF b.batchIdx + PROCESSING_BATCH_SIZE < b.n
                      THEN PROCESSING_BATCH_SIZE ELSE b.n - b.batchIdx
    IN [processing |-> processing,
        api |-> IF b.i0 + BATCH_SIZE < processing THEN BATCH_SIZE ELSE processing - b.i0]

\* The end of one API batch that returns the created count only.
AdvanceImportCreatedOnly(b) ==
    LET b1 == [b EXCEPT !.i0 = @ + BATCH_SIZE]
    IN IF b1.i0 < Slices(b).processing
       THEN bulk' = [b1 EXCEPT !.pc = "convertBatch"]
       ELSE bulk' = [b1 EXCEPT !.pc = "batchUpsert",
                               !.changed = @ + b.totalCreated]

\* The end of one API batch: i += BATCH_SIZE and the next API batch, or the
\* return of bulkProcessNewPermits: changed += result.created,
\* errors += result.failed, and then upsertPermitState(batch).
AdvanceImport(b) ==
    LET b1 == [b EXCEPT !.i0 = @ + BATCH_SIZE]
    IN IF b1.i0 < Slices(b).processing
       THEN bulk' = [b1 EXCEPT !.pc = "convertBatch"]
       ELSE bulk' = [b1 EXCEPT !.pc = "batchUpsert",
                               !.changed = @ + b.totalCreated,
                               !.errors = @ + b.totalFailed]

\* processPermitsSync(records) with n records, live, on an empty table:
\* createSyncLog, initializePermitCaches, isTableEmpty, and the first
\* processing batch if there is one.
B_processPermitsSync(n) ==
    /\ bulk.pc = "idle"
    /\ bulk' = [NoImport EXCEPT !.n = n,
                                !.pc = IF n = 0 THEN "complete" ELSE "convertBatch"]
    /\ UNCHANGED <<driver, gateway, delivery, taxonomy, invocations>>

\* await Promise.all(batch.map(convert)): failures of the API batch's
\* conversions are counted as failed; with no successful conversion the
\* loop continues with the next API batch.
B_convertBatch(failures) ==
    /\ bulk.pc = "convertBatch"
    /\ failures \in {0, 1, Slices(bulk).api}
    /\ failures > 0 => bulk.failed < MaxImportFailures
    /\ LET b == [bulk EXCEPT !.converted = Slices(bulk).api - failures,
                             !.totalFailed = @ + failures,
                             !.conversionFailures = @ + failures,
                             !.handled = @ + Slices(bulk).api,
                             !.failed = IF failures > 0 THEN @ + 1 ELSE @]
       IN IF b.converted = 0
          THEN AdvanceImport(b)
          ELSE bulk' = [b EXCEPT !.pc = "bulkCreatePermits"]
    /\ UNCHANGED <<driver, gateway, delivery, taxonomy, invocations>>

\* const result = await bulkCreatePermits(successfulConversions):
\* totalCreated += result.created, totalFailed += result.failed; if it throws,
\* totalFailed += successfulConversions.length.  The response accounts for
\* every permit it was sent.
B_bulkCreatePermits(created) ==
    /\ bulk.pc = "bulkCreatePermits"
    /\ created \in {0, bulk.converted - 1, bulk.converted}
    /\ created < bulk.converted => bulk.failed < MaxImportFailures
    /\ AdvanceImport([bulk EXCEPT
            !.totalCreated = @ + created,
            !.totalFailed = @ + (bulk.converted - created),
            !.bulkFailures = @ + (bulk.converted - created),
            !.failed = IF created < bulk.converted THEN @ + 1 ELSE @,
            !.largestCall = IF bulk.converted > @ THEN bulk.converted ELSE @,
            !.twice = @ \/ bulk.batchIdx + bulk.i0 + 1 <= bulk.submittedTo,
            !.submittedTo = bulk.batchIdx + bulk.i0 + Slices(bulk).api])
    /\ UNCHANGED <<driver, gateway, delivery, taxonomy, invocations>>

\* await upsertPermitState(batch); clearPermitCaches(); the next processing
\* batch, or the completion of the log.  A failure goes to the catch block.
B_batchUpsert ==
    /\ bulk.pc = "batchUpsert"
    /\ \/ LET b == [bulk EXCEPT !.upserted = @ + Slices(bulk).processing,
                                !.batchIdx = @ + PROCESSING_BATCH_SIZE,
                                !.i0 = 0, !.totalCreated = 0, !.totalFailed = 0,
                                !.converted = 0]
          IN bulk' = [b EXCEPT !.pc = IF b.batchIdx < b.n THEN "convertBatch" ELSE "complete"]
       \/ /\ bulk.failed < MaxImportFailures
          /\ bulk' = [bulk EXCEPT !.pc = "catch", !.failed = @ + 1]
    /\ UNCHANGED <<driver, gateway, delivery, taxonomy, invocations>>

\* await completeSyncLog(syncLogId, sortedRecords.length, changed, errors); return
B_complete ==
    /\ bulk.pc = "complete"
    /\ \/ bulk' = [bulk EXCEPT !.pc = "done",
                                !.log = [completed |-> TRUE, total_records |-> bulk.n,
                                         changed_records |-> bulk.changed,
                                         errors |-> bulk.errors, error_message |-> NullStr]]
       \/ /\ bulk.failed < MaxImportFailures
          /\ bulk' = [bulk EXCEPT !.pc = "catch", !.failed = @ + 1]
    /\ UNCHANGED <<driver, gateway, delivery, taxonomy, invocations>>

\* catch (err): await completeSyncLog(syncLogId, records.length, changed,
\* errors, errorMessage); throw err
B_catch ==
    /\ bulk.pc = "catch"
    /\ \/ bulk' = [bulk EXCEPT !.pc = "raised",
                                !.log = [completed |-> TRUE, total_records |-> bulk.n,
                                         changed_records |-> bulk.changed,
                                         errors |-> bulk.errors,
                                         error_message |-> "query failed"]]
       \/ /\ bulk.failed < MaxImportFailures
          /\ bulk' = [bulk EXCEPT !.pc = "raised", !.failed = @ + 1]
    /\ UNCHANGED <<driver, gateway, delivery, taxonomy, invocations>>

NextBulk ==
    \/ \E n \in ImportSizes : B_processPermitsSync(n)
    \/ \E failures \in 0..BATCH_SIZE : B_convertBatch(failures)
    \/ \E created \in 0..BATCH_SIZE : B_bulkCreatePermits(created)
    \/ B_batchUpsert
    \/ B_complete
    \/ B_catch

\* The initial import of a live permits deployment with an empty state table.
SpecBulk == InitGateway /\ [][NextBulk]_vars

\* ------------------------------------- permit types resolved concurrently

\* getOrCreatePermitType from its cache test on, which runs without an
\* await: a hit returns cached.id, a miss awaits createPermitType.
CheckCache(t, c) ==
    [t EXCEPT !.conv[c] = IF t.cache = "with" THEN "returned" ELSE "createPermitType"]

\* A conversion of the bulk batch calls getOrCreatePermitType(typeName):
\* if (!permitTypesCache) await fetchPermitTypes()
T_getOrCreatePermitType(c) ==
    /\ taxonomy.conv[c] = "idle"
    /\ taxonomy' = IF taxonomy.cache = "null"
                   THEN [taxonomy EXCEPT !.conv[c] = "fetchPermitTypes"]
                   ELSE CheckCache(taxonomy, c)
    /\ UNCHANGED <<driver, gateway, bulk, delivery, invocations>>

\* fetchPermitTypes answers: the caches are replaced by Maps of what the
\* external system holds; or it throws.
T_fetchPermitTypes(c) ==
    /\ taxonomy.conv[c] = "fetchPermitTypes"
    /\ \/ taxonomy' = CheckCache([taxonomy EXCEPT !.cache = IF taxonomy.external > 0
                                                             THEN "with" ELSE "without"], c)
       \/ /\ taxonomy.failed < MaxTaxonomyFailures
          /\ taxonomy' = [taxonomy EXCEPT !.conv[c] = "threw", !.failed = @ + 1]
    /\ UNCHANGED <<driver, gateway, bulk, delivery, invocations>>

\* createPermitType answers: the external system has one more type by the
\* name, and permitTypesCache!.set(...) stores it, which is a TypeError if
\* the cache was cleared meanwhile; or the call throws.
T_createPermitType(c) ==
    /\ taxonomy.conv[c] = "createPermitType"
    /\ \/ taxonomy' = [taxonomy EXCEPT
                           !.external = @ + 1,
                           !.cache = IF @ = "null" THEN @ ELSE "with",
                           !.conv[c] = IF taxonomy.cache = "null" THEN "threw" ELSE "returned"]
       \/ /\ taxonomy.failed < MaxTaxonomyFailures
          /\ taxonomy' = [taxonomy EXCEPT !.conv[c] = "threw", !.failed = @ + 1]
    /\ UNCHANGED <<driver, gateway, bulk, delivery, invocations>>

\* Another run calls clearPermitCaches().
T_clearPermitCaches ==
    /\ taxonomy.clears < MaxClears
    /\ taxonomy' = [taxonomy EXCEPT !.cache = "null", !.clears = @ + 1]
    /\ UNCHANGED <<driver, gateway, bulk, delivery, invocations>>

NextTaxonomy ==
    \/ \E c \in Converters : T_getOrCreatePermitType(c)
    \/ \E c \in Converters : T_fetchPermitTypes(c)
    \/ \E c \in Converters : T_createPermitType(c)
    \/ T_clearPermitCaches

\* The conversions of one bulk batch whose records carry one type name the
\* external system does not have.
SpecTaxonomy == InitGateway /\ [][NextTaxonomy]_vars

\* -------------------------------------- matcher invocations run interleaved

\* Everything but the review queue and the invocations.
besidesQueue == <<syncType, config, violation_state, inspection_state, permit_state,
                  sync_log, match_log, runs, matches, resolves, faults, pc, run, chg,
                  gateway, bulk, delivery, taxonomy>>

\* A delivery's matchViolationToTicket reaches one of its review branches
\* for the violation `key`: if (!(await isInReviewQueue(externalId)))
X_reachesReview(i, key) ==
    /\ invocations.inv[i].pc = "idle"
    /\ invocations' = [invocations EXCEPT !.inv[i] = [pc |-> "isInReviewQueue", key |-> key]]
    /\ UNCHANGED <<review_queue, besidesQueue>>

\* The SELECT answers: a pending row skips the insert; or the query throws.
X_isInReviewQueue(i) ==
    /\ invocations.inv[i].pc = "isInReviewQueue"
    /\ \/ invocations' = [invocations EXCEPT !.inv[i].pc =
                              IF isInReviewQueue(review_queue, invocations.inv[i].key)
                              THEN "logMatchAttempt" ELSE "queueForReview"]
       \/ /\ invocations.failed < MaxQueueFailures
          /\ invocations' = [invocations EXCEPT !.inv[i].pc = "threw", !.failed = @ + 1]
    /\ UNCHANGED <<review_queue, besidesQueue>>

\* The INSERT answers; or it throws.
X_queueForReview(i) ==
    /\ invocations.inv[i].pc = "queueForReview"
    /\ \/ /\ review_queue' = queueForReview(review_queue, invocations.inv[i].key, "no_candidates")
          /\ invocations' = [invocations EXCEPT !.inv[i].pc = "logMatchAttempt"]
       \/ /\ invocations.failed < MaxQueueFailures
          /\ invocations' = [invocations EXCEPT !.inv[i].pc = "threw", !.failed = @ + 1]
          /\ UNCHANGED review_queue
    /\ UNCHANGED besidesQueue

NextInterleaved ==
    \/ \E i \in Invocations, key \in Keys : X_reachesReview(i, key)
    \/ \E i \in Invocations : X_isInReviewQueue(i)
    \/ \E i \in Invocations : X_queueForReview(i)

\* Deliveries handled concurrently, each with a violation that needs review.
SpecInterleaved == InitRematch /\ [][NextInterleaved]_vars

\* ------------------------------------------------------ the webhook handler

\* File names and subjects as the words the handler's tests look at.
Filenames ==
    {<<"V_Threefold_", "Violations", "_and_Cases", ".csv">>,
     <<"V_Threefold_CASE_", "INSPECTION", "S", ".csv">>,
     <<"V_Threefold_", "Permit", "s", ".csv">>,
     <<"V_Threefold_Code_Enforcement_Cases", ".csv">>,
     <<"V_Threefold_", "Violations", "_and_Cases", ".CSV">>,
     <<"V_Threefold_", "Violations", "_and_Cases", ".xlsx">>}

Subjects == {<<"TrakIT ", "Permit", " export">>, <<"TrakIT daily export">>}

\* String.prototype.toLowerCase on the words of the model.
toLowerCase(word) ==
    CASE word = "Violations" -> "violations"
      [] word = "INSPECTION" -> "inspection"
      [] word = "Permit" -> "permit"
      [] word = ".CSV" -> ".csv"
      [] OTHER -> word

\* text.toLowerCase().includes(word)
lowerIncludes(text, word) == \E n \in 1..Len(text) : toLowerCase(text[n]) = word

\* filename.endsWith(suffix): the case matters.
endsWith(filename, suffix) == filename[Len(filename)] = suffix

\* detectReportType(filename) of parsers/detect-type
detectReportType(filename) ==
    IF lowerIncludes(filename, "violations") THEN "violations"
    ELSE IF lowerIncludes(filename, "inspection") THEN "inspections"
    ELSE "unknown"

\* The parser and sync the handler awaits for an attachment; "none" for an
\* attachment it skips.
Pipeline(subject, filename) ==
    IF ~endsWith(filename, ".csv") THEN "none"
    ELSE IF lowerIncludes(subject, "permit") THEN "permits"
    ELSE IF detectReportType(filename) = "unknown" THEN "none"
    ELSE detectReportType(filename)

\* A loop that starts the pipelines and waits for none of them.
LoopNeverSuspended(d) == FALSE

\* The for loop is suspended at an await while a pipeline it started runs.
LoopSuspended(d) == d.running # {}

\* bb.on('finish'): the fields and files of the request have been read.
W_finish(subject, attachments) ==
    /\ delivery.pc = "idle"
    /\ delivery' = [NoDelivery EXCEPT !.pc = "loop", !.subject = subject,
                                      !.attachments = attachments, !.k = 1]
    /\ UNCHANGED <<driver, gateway, bulk, taxonomy, invocations>>

\* for (const attachment of email.attachments): skip it, or start
\* await parse...Csv(csvContent); await process...Sync(records)
W_attachment ==
    /\ delivery.pc = "loop"
    /\ ~LoopSuspended(delivery)
    /\ delivery.k <= Len(delivery.attachments)
    /\ IF Pipeline(delivery.subject, delivery.attachments[delivery.k]) = "none"
       THEN delivery' = [delivery EXCEPT !.k = @ + 1]
       ELSE delivery' = [delivery EXCEPT !.k = @ + 1,
                                         !.started = @ \cup {delivery.k},
                                         !.running = @ \cup {delivery.k}]
    /\ UNCHANGED <<driver, gateway, bulk, taxonomy, invocations>>

\* The parser and process...Sync of attachment j return.
W_returns(j) ==
    /\ j \in delivery.running
    /\ delivery' = [delivery EXCEPT !.running = @ \ {j}, !.ended = @ \cup {j}]
    /\ UNCHANGED <<driver, gateway, bulk, taxonomy, invocations>>

\* The parser or process...Sync of attachment j throws:
\* catch (error) { res.status(500).json(...) }
W_throws(j) ==
    /\ delivery.pc = "loop"
    /\ j \in delivery.running
    /\ delivery' = [delivery EXCEPT !.running = @ \ {j}, !.threw = @ \cup {j},
                                      !.pc = "answered", !.status = 500]
    /\ UNCHANGED <<driver, gateway, bulk, taxonomy, invocations>>

\* After the loop: res.status(200).json({ success: true })
W_respond ==
    /\ delivery.pc = "loop"
    /\ ~LoopSuspended(delivery)
    /\ delivery.k > Len(delivery.attachments)
    /\ delivery' = [delivery EXCEPT !.pc = "answered", !.status = 200]
    /\ UNCHANGED <<driver, gateway, bulk, taxonomy, invocations>>

NextWebhook ==
    \/ \E subject \in Subjects, attachments \in SeqUpTo(Filenames, MaxAttachments) :
          W_finish(subject, attachments)
    \/ W_attachment
    \/ \E j \in 1..MaxAttachments : W_returns(j)
    \/ \E j \in 1..MaxAttachments : W_throws(j)
    \/ W_respond

\* One delivery to POST /webhook/sendgrid.
SpecWebhook == InitGateway /\ [][NextWebhook]_vars

\* ------------------------------------------------------- reading the state

\* The state table, the signature column and the identity key of the record
\* type this deployment syncs.
StateTable ==
    CASE syncType = "violations" -> violation_state
      [] syncType = "inspections" -> inspection_state
      [] OTHER -> permit_state

Signature(row) ==
    CASE syncType = "violations" -> row.violation_status
      [] syncType = "inspections" -> row.result
      [] OTHER -> row.content_hash

RecordKey(r) ==
    CASE syncType = "violations" -> r.externalId
      [] syncType = "inspections" -> r.uniqueKey
      [] OTHER -> r.permitNo

\* What the driver of the type hands to the diff and to the upsert.
DriverDiff(records, table) ==
    CASE syncType = "violations" -> diffViolations(records, table)
      [] syncType = "inspections" -> diffInspections(records, table)
      [] OTHER -> diffPermits(sortPermitsLatestFirst(records), table)

DriverUpsert(records, table, now) ==
    CASE syncType = "violations" -> upsertViolationState(records, table, now)
      [] syncType = "inspections" -> upsertInspectionState(records, table, now)
      [] OTHER -> upsertPermitState(sortPermitsLatestFirst(records), table, now)

Range(s) == {s[n] : n \in 1..Len(s)}

\* The rows of s in the order p.
Permute(s, p) == [n \in 1..Len(s) |-> s[p[n]]]

\* The program points between two Changes and after the last one.
AfterChangePcs ==
    {"v_change", "v_upsert", "v_complete", "v_catch",
     "i_change", "i_upsert", "i_complete", "i_catch",
     "p_change", "p_upsert", "p_complete", "p_catch", "done", "raised"}

\* The per-Change action of the driver has ended for the Change in chg.
Finished == chg.caller = "driver" /\ pc \in AfterChangePcs

\* The Change that chg holds the locals of.
ChangeOfChg ==
    run.changes[CHOOSE n \in 1..Len(run.changes) : RecordKey(run.changes[n].record) = chg.key]

\* The run went through the per-Change loop.
LoopRun == run.i >= 1 /\ (syncType = "permits" => run.path = "loop")

PendingRows(externalId) ==
    {n \in 1..Len(review_queue) :
        review_queue[n].external_id = externalId /\ review_queue[n].status = "pending"}

\* The batch of scenario A: two rows of one violation, OPEN and COMPLIED.
ScenarioA ==
    /\ syncType = "violations"
    /\ Len(run.input) = 2
    /\ run.input[1].externalId = run.input[2].externalId
    /\ {run.input[1].violationStatus, run.input[2].violationStatus} = {"OPEN", "COMPLIED"}

ScenarioAStoredOpen ==
    /\ run.input[1].externalId \in DOMAIN run.before
    /\ run.before[run.input[1].externalId].violation_status = "OPEN"

\* ------------------------------------------------------------------ claims

\* C1: a run on the batch the previous run completed with emits no Change and
\* invokes no per-Change action; when it is done the state table has the same
\* keys and every row differs from the row before the run in last_seen_at at
\* most: the signature is the same, and last_seen_at is the run's time for
\* the keys of the batch and unchanged for the others.
C1_IdempotentReingestion ==
    run.repeat =>
        /\ run.changes = <<>>
        /\ run.actionCalls = 0
        /\ pc = "done" =>
            /\ DOMAIN StateTable = DOMAIN run.before
            /\ \A k \in DOMAIN StateTable :
                /\ Signature(StateTable[k]) = Signature(run.before[k])
                /\ [StateTable[k] EXCEPT !.last_seen_at = 0] =
                       [run.before[k] EXCEPT !.last_seen_at = 0]
                /\ StateTable[k].last_seen_at =
                       IF \E n \in 1..Len(run.input) : RecordKey(run.input[n]) = k
                       THEN runs ELSE run.before[k].last_seen_at

\* A second run of a permit batch with two different rows of one permit has
\* diffed and is done.
C1_Witness ==
    /\ run.repeat
    /\ pc = "done"
    /\ syncType = "permits"
    /\ run.diffCalls = 1
    /\ run.upserts = 1
    /\ Len(run.input) = 2
    /\ run.input[1].permitNo = run.input[2].permitNo
    /\ run.input[1].status # run.input[2].status
    /\ permit_state[run.input[1].permitNo].last_seen_at = runs

\* C2: once a run has diffed, every permutation of its batch gives the same
\* Changes against the table the run started with, and the same table after
\* the upsert (the same winning record per key).
C2_DedupDeterminism ==
    run.diffCalls > 0 =>
        \A p \in Permutations(1..Len(run.input)) :
            /\ Range(DriverDiff(Permute(run.input, p), run.before)) = Range(run.changes)
            /\ DriverUpsert(Permute(run.input, p), run.before, runs) =
                   DriverUpsert(run.input, run.before, runs)

\* C3: a run that started with the type's state table empty never calls the
\* diff and never invokes the per-Change action.
C3_InitialSyncExclusive ==
    run.tableWasEmpty =>
        /\ run.diffCalls = 0
        /\ run.actionCalls = 0
        /\ run.changes = <<>>
        /\ chg = NoChange

\* A run that started on an empty table is done and has populated the table
\* from a batch of two records.
C3_Witness ==
    /\ run.tableWasEmpty
    /\ pc = "done"
    /\ Len(run.records) = 2
    /\ run.upserts >= 1
    /\ DOMAIN StateTable # {}

\* C4 as stated: every status transition of a violation yields the close
\* action and not the status comment when the new status is COMPLIED or
\* UNFOUNDED, and the status comment and not the close action otherwise.
C4_ClosePartitionAlways ==
    (syncType = "violations" /\ Finished /\ ~ChangeOfChg.isNew) =>
        IF ChangeOfChg.newStatus \in {"COMPLIED", "UNFOUNDED"}
        THEN Called("moveTicketToStep") /\ ~Called("addTicketComment:status")
        ELSE Called("addTicketComment:status") /\ ~Called("moveTicketToStep")

\* C4 amended: for a status transition of a violation, a new status COMPLIED
\* or UNFOUNDED never yields the status comment and any other status never
\* yields a close; and when ticket updates are enabled and the matcher has
\* returned a ticket id, the former yields the close action and the latter
\* the status comment.
C4_ClosePartition ==
    (syncType = "violations" /\ chg.caller = "driver" /\ ~ChangeOfChg.isNew) =>
        /\ IF ChangeOfChg.newStatus \in {"COMPLIED", "UNFOUNDED"}
           THEN ~Called("addTicketComment:status")
           ELSE ~Called("moveTicketToStep") /\ ~Called("addTicketComment:closed")
        /\ (Finished /\ config.ticketUpdatesEnabled /\ chg.returned
                /\ chg.result.ticketId # NullId) =>
              IF ChangeOfChg.newStatus \in {"COMPLIED", "UNFOUNDED"}
              THEN Called("moveTicketToStep")
              ELSE Called("addTicketComment:status")

\* A transition to UNFOUNDED has been matched and the ticket closed.
C4_Witness ==
    /\ syncType = "violations"
    /\ Finished
    /\ ~ChangeOfChg.isNew
    /\ ChangeOfChg.newStatus = "UNFOUNDED"
    /\ chg.result.ticketId # NullId
    /\ Called("moveTicketToStep")
    /\ Called("addTicketComment:closed")

\* C5: with a cached ticket id the matcher issues no external-ID lookup, no
\* location search and no classifier call; with no cached id and a ticket
\* found by the external-ID lookup it issues no location search and no
\* classifier call.
C5_EscalationOrder ==
    /\ chg.cachedTicketId # NullId =>
          /\ ~Called("findTicketByExternalId")
          /\ ~Called("fetchTicketsByLocation")
          /\ ~Called("callOpenAI")
    /\ (chg.cachedTicketId = NullId /\ chg.exactMatch # NullId) =>
          /\ ~Called("fetchTicketsByLocation")
          /\ ~Called("callOpenAI")

\* C6: for a Change whose classifier result has confidence low or no ticket,
\* the violations driver issues no close and no comment call.
C6_LowConfidenceNotApplied ==
    (chg.caller = "driver" /\ chg.llmResult.ok
        /\ (chg.llmResult.confidence = "low" \/ chg.llmResult.ticketId = NullId)) =>
        /\ ~Called("moveTicketToStep")
        /\ ~Called("addTicketComment:closed")
        /\ ~Called("addTicketComment:status")
        /\ pc \notin {"v_moveTicketToStep", "v_closeComment", "v_addTicketComment"}

\* C7: a classifier result with confidence low or no ticket is never written
\* to the match cache, and the MatchResult returned for it has needsReview.
C7_ConfidenceGating ==
    (chg.llmResult.ok
        /\ (chg.llmResult.confidence = "low" \/ chg.llmResult.ticketId = NullId)) =>
        /\ ~Called("setMatchedTicketId:llm")
        /\ pc # "m_setMatchedTicketId_llm"
        /\ chg.key \in DOMAIN violation_state =>
              violation_state[chg.key].matched_ticket_id = NullId
        /\ chg.returned => chg.result.needsReview

\* The matcher has returned a low-confidence classifier match on a ticket.
C7_Witness ==
    /\ chg.returned
    /\ chg.llmResult.ok
    /\ chg.llmResult.confidence = "low"
    /\ chg.llmResult.ticketId # NullId
    /\ chg.result.needsReview
    /\ chg.key \in DOMAIN violation_state

\* C8: the review queue never holds two pending rows of one key, and the
\* matcher is about to insert a row only for a key with no pending row.
C8_ReviewQueueNoDuplicates ==
    /\ \A k \in Keys : Cardinality(PendingRows(k)) <= 1
    /\ pc = "m_queueForReview" => PendingRows(chg.key) = {}

\* A matcher invocation for a key with a pending row has returned for review
\* without inserting a row.
C8_Witness ==
    /\ chg.returned
    /\ chg.result.needsReview
    /\ Called("isInReviewQueue")
    /\ ~Called("queueForReview")
    /\ Cardinality(PendingRows(chg.key)) = 1
    /\ Len(review_queue) = 1

C10_PerChangeErrorIsolation ==
    LoopRun =>
        /\ run.changed + run.errors = run.i - 1
        /\ run.errors = run.thrown
        /\ run.actionCalls \in {run.i - 1, run.i}
        /\ pc \in {"v_upsert", "i_upsert", "p_upsert", "v_complete", "i_complete",
                   "p_complete", "done"} =>
              /\ run.i = Len(run.changes) + 1
              /\ run.actionCalls = Len(run.changes)

\* The first of two Changes threw, the second was processed, the run is done.
C10_Witness ==
    /\ LoopRun
    /\ pc = "done"
    /\ Len(run.changes) = 2
    /\ run.errors = 1
    /\ run.changed = 1
    /\ chg.caller = "driver"
    /\ ~chg.threw

\* C11: whenever process*Sync has thrown to its caller after it opened the
\* RunLog row, that row is completed with the message of the exception that
\* escaped the body and with the changed and error counts of the run so far,
\* and the exception thrown to the caller is that same exception.
C11_RunLevelFailure ==
    (pc = "raised" /\ run.syncLogId # 0) =>
        /\ sync_log[run.syncLogId].completed
        /\ sync_log[run.syncLogId].error_message = run.errorMessage
        /\ sync_log[run.syncLogId].error_message # NullStr
        /\ sync_log[run.syncLogId].changed_records = run.changed
        /\ sync_log[run.syncLogId].errors = run.errors
        /\ run.raised = run.errorMessage

\* The program points at which a call of the matcher, of the ticketing system
\* or of the permit API is awaited (the read-only cache initialisation of a
\* permits run apart).
ExternalCallPcs ==
    {"m_getMatchedTicketId", "m_findTicketByExternalId", "m_setMatchedTicketId_external",
     "m_fetchTicketsByLocation", "m_callOpenAI", "m_isInReviewQueue", "m_queueForReview",
     "m_logMatchAttempt", "m_setMatchedTicketId_llm", "m_setTicketExternalId",
     "v_moveTicketToStep", "v_closeComment", "v_addTicketComment",
     "i_findTicketsByCaseNo", "i_addTicketComment",
     "p_convertBatch", "p_bulkCreatePermits", "p_change",
     "p_convertPermitRecordToApiRequest", "p_getPermitByNumber", "p_createPermit",
     "p_updatePermit", "p_retryInitializePermitCaches", "p_updatePermitThreefoldIds"}

\* The run is a dry run of its record type.
DryRun ==
    IF syncType = "permits" THEN ~config.permitUpdatesEnabled
    ELSE ~config.ticketUpdatesEnabled

\* Every record of the batch has a row that the run's upsert touched.
BatchUpserted ==
    \A n \in 1..Len(run.input) :
        /\ RecordKey(run.input[n]) \in DOMAIN StateTable
        /\ StateTable[RecordKey(run.input[n])].last_seen_at = runs

\* C12 as stated: a dry run awaits no matcher call and no call of the
\* ticketing system or the permit API, and when it is done it has computed
\* the diff, upserted the batch and completed its RunLog row.
C12_DryRunAlwaysDiffs ==
    DryRun =>
        /\ chg.calls = <<>>
        /\ pc \notin ExternalCallPcs
        /\ pc = "done" =>
              /\ run.diffCalls = 1
              /\ run.upserts = 1
              /\ BatchUpserted
              /\ sync_log[run.syncLogId].completed

\* C12 amended: a dry run awaits no matcher call and no call of the ticketing
\* system or the permit API (no bulk create either); when it is done it has
\* upserted the whole batch once and completed its RunLog row with no error
\* message; it has computed the diff once if the state table was not empty
\* when it started, and not at all if it was.
C12_DryRun ==
    DryRun =>
        /\ chg.calls = <<>>
        /\ pc \notin ExternalCallPcs
        /\ run.requests = <<>>
        /\ run.totalCreated = 0
        /\ pc = "done" =>
              /\ run.diffCalls = (IF run.tableWasEmpty THEN 0 ELSE 1)
              /\ run.upserts = 1
              /\ BatchUpserted
              /\ sync_log[run.syncLogId].completed
              /\ sync_log[run.syncLogId].error_message = NullStr

\* A dry run of the violations driver found two status transitions, invoked
\* the per-Change action for both and is done.
C12_Witness ==
    /\ DryRun
    /\ syncType = "violations"
    /\ pc = "done"
    /\ run.diffCalls = 1
    /\ Len(run.changes) = 2
    /\ ~run.changes[1].isNew
    /\ ~run.changes[2].isNew
    /\ run.actionCalls = 2

\* The program points of the state upsert and of the completion of the RunLog
\* at the end of an incremental run.
UpsertPcs == {"v_upsert", "i_upsert", "p_upsert"}

CompletePcs == {"v_complete", "i_complete", "p_complete"}

C14_GatewaySpacing ==
    \A m \in GatewayModules : shortestGap[m] >= minRequestInterval(m)

\* A caller inside apiRequest, or one whose apiRequest call has ended.
InApiRequest(c) == callers[c].module = "threefold-permits"

\* C15: one apiRequest call sends at most maxRetries requests; it waits and
\* retries only after a 429 or a 500 that was not the last attempt, after a
\* 429 for handleRateLimit's time, never more than 120 s; a 429 on the last
\* attempt throws; any other response ends the call at once; and every call
\* ends.
C15_RetryBound ==
    /\ [](\A c \in Callers : InApiRequest(c) =>
            /\ callers[c].requests <= maxRetries
            /\ callers[c].pc = "backoff" =>
                  /\ callers[c].status \in {429, 500}
                  /\ callers[c].attempt < maxRetries - 1
                  /\ callers[c].requests = callers[c].attempt + 1
                  /\ callers[c].waitMs.nan \/ callers[c].waitMs.ms <= 120000
                  /\ callers[c].timer <= 120000
            /\ callers[c].pc = "idle" /\ callers[c].status = 429 =>
                  callers[c].result = "threw" /\ callers[c].requests = maxRetries
            /\ callers[c].pc = "idle" /\ callers[c].status = 200 =>
                  callers[c].result = "returned")
    /\ \A c \in Callers : (callers[c].result = "pending") ~> (callers[c].result # "pending")

\* A call that was answered 429 three times and threw.
C15_Witness ==
    \E c \in Callers :
        /\ InApiRequest(c)
        /\ callers[c].pc = "idle"
        /\ callers[c].status = 429
        /\ callers[c].requests = maxRetries
        /\ callers[c].result = "threw"

\* C16: a gateway call that was answered 429 or 5xx throws only after the
\* request has been retried.
C16_TransientRetried ==
    \A c \in Callers :
        (/\ callers[c].pc = "idle"
         /\ callers[c].result = "threw"
         /\ callers[c].status \in {429, 500, 503})
        => callers[c].requests > 1

\* ----------------------------------------------------- stale-cache retry

\* C17: for one permit Change there is at most one cache refresh and at most
\* one retry, the refresh happens only on the first attempt, an attempt
\* awaits at most four calls, a Change that failed has thrown to the driver,
\* which counted it, and a Change that did not throw was carried out to its
\* last call.
C17_StaleCacheRetry ==
    syncType = "permits" =>
        /\ chg.retryCount <= 1
        /\ Cardinality({i \in DOMAIN chg.calls : chg.calls[i] = "initializePermitCaches"}) <= 1
        /\ Cardinality({i \in DOMAIN chg.calls :
                            chg.calls[i] = "convertPermitRecordToApiRequest"}) <= 2
        /\ Len(chg.calls) <= 10
        /\ pc = "p_retryInitializePermitCaches" =>
              chg.retryCount = 0 /\ \A i \in DOMAIN chg.calls : chg.calls[i] # "initializePermitCaches"
        /\ chg.threw => run.thrown >= 1 /\ run.errors >= 1
        /\ pc \in {"p_change", "p_upsert"} /\ chg.key # NullStr /\ ~chg.threw
              => chg.calls[Len(chg.calls)] = "updatePermitThreefoldIds"

\* A stale-cache error, a refresh, and a retry that failed and was thrown to
\* the driver.
C17_Witness ==
    /\ syncType = "permits"
    /\ chg.retryCount = 1
    /\ chg.threw
    /\ run.errors = 1
    /\ Cardinality({i \in DOMAIN chg.calls : chg.calls[i] = "initializePermitCaches"}) = 1

\* ------------------------------------------------------------- match log

\* C18: a matcher invocation that got past the location search and returned
\* awaited logMatchAttempt exactly once.
C18_MatchLogComplete ==
    (/\ chg.returned
     /\ \E i \in DOMAIN chg.calls :
            chg.calls[i] = "fetchTicketsByLocation" /\ i < Len(chg.calls))
    => Cardinality({i \in DOMAIN chg.calls : chg.calls[i] = "logMatchAttempt"}) = 1

\* ---------------------------------------------------- response validation

\* C19: a parsed classifier result names no ticket or one of the candidates;
\* a matcher that returned after an unparseable response or a classifier
\* failure returned no ticket and needsReview, set no matched ticket, and the
\* review queue holds a row of the key: the row it has just added, with the
\* reason llm_parse_error or api_error, or the one that was pending.
C19_ResponseValidation ==
    /\ chg.llmResult.ok /\ chg.llmResult.ticketId # NullId
          => \E n \in DOMAIN chg.candidates : chg.candidates[n] = chg.llmResult.ticketId
    /\ chg.returned /\ chg.reason \in {"llm_parse_error", "api_error"} =>
          /\ chg.result.ticketId = NullId
          /\ chg.result.needsReview
          /\ ~chg.llmResult.ok
          /\ \A i \in DOMAIN chg.calls : chg.calls[i] # "setMatchedTicketId:llm"
          /\ getMatchedTicketId(violation_state, chg.key) = NullId
          /\ \E n \in DOMAIN review_queue : review_queue[n].external_id = chg.key
          /\ (\E i \in DOMAIN chg.calls : chg.calls[i] = "queueForReview") =>
                /\ review_queue[Len(review_queue)].external_id = chg.key
                /\ review_queue[Len(review_queue)].reason = chg.reason

\* The classifier failed, the key was not pending, and the matcher returned.
C19_Witness ==
    /\ chg.returned
    /\ chg.reason = "api_error"
    /\ \E i \in DOMAIN chg.calls : chg.calls[i] = "queueForReview"
    /\ review_queue[Len(review_queue)].reason = "api_error"

\* ------------------------------------------------------ matching ambiguity

\* C20: the matcher never throws because the external-ID lookup, the location
\* search or the classifier call failed, nor on zero candidates, an
\* unparseable response or low confidence: when the matcher throws, a query
\* of the state store has failed, and the driver's error counter counts only
\* Changes that threw.
C20_AmbiguityNoError ==
    syncType = "violations" =>
        /\ chg.threw /\ ~chg.returned =>
              chg.calls[Len(chg.calls)] \in
                  {"getMatchedTicketId", "isInReviewQueue", "queueForReview",
                   "logMatchAttempt", "setMatchedTicketId:llm"}
        /\ run.errors = run.thrown

\* The classifier call failed for a Change of a run, the matcher returned,
\* and the run has counted no error.
C20_Witness ==
    /\ syncType = "violations"
    /\ chg.caller = "driver"
    /\ chg.reason = "api_error"
    /\ chg.returned
    /\ ~chg.threw
    /\ faults = 1
    /\ run.errors = 0

\* --------------------------------------------------------------- scenario C

\* The matcher returned after a location search that found no candidate.
ScenarioC == chg.returned /\ chg.reason = "no_candidates"

\* C21 as stated: after scenario C the matcher has returned no ticket and
\* needsReview, the review queue holds exactly one row of the key with reason
\* no_candidates, and the match log ends with a row of the key with
\* candidateCount 0.
C21_ScenarioCExactlyOne ==
    ScenarioC =>
        /\ chg.result.ticketId = NullId
        /\ chg.result.needsReview
        /\ Cardinality({n \in DOMAIN review_queue :
                            /\ review_queue[n].external_id = chg.key
                            /\ review_queue[n].reason = "no_candidates"}) = 1
        /\ match_log[Len(match_log)].external_id = chg.key
        /\ match_log[Len(match_log)].candidate_count = 0

\* C21: after scenario C the matcher has returned no ticket and needsReview;
\* it has inserted at most one review-queue row, with reason no_candidates
\* and only when no row of the key was pending, and otherwise a row of the
\* key was there already; the match log ends with a row of the key with
\* candidateCount 0 and no selection.
C21_ScenarioC ==
    ScenarioC =>
        /\ chg.result.ticketId = NullId
        /\ chg.result.needsReview
        /\ Cardinality({i \in DOMAIN chg.calls : chg.calls[i] = "queueForReview"}) <= 1
        /\ Called("queueForReview") =>
              /\ review_queue[Len(review_queue)].external_id = chg.key
              /\ review_queue[Len(review_queue)].reason = "no_candidates"
              /\ \A n \in 1..(Len(review_queue) - 1) :
                    review_queue[n].external_id = chg.key => review_queue[n].status # "pending"
        /\ ~Called("queueForReview") =>
              \E n \in DOMAIN review_queue : review_queue[n].external_id = chg.key
        /\ Cardinality({i \in DOMAIN chg.calls : chg.calls[i] = "logMatchAttempt"}) = 1
        /\ match_log[Len(match_log)].external_id = chg.key
        /\ match_log[Len(match_log)].candidate_count = 0
        /\ match_log[Len(match_log)].selected_ticket_id = NullId

\* Scenario C for a key with no row in the queue: one row was inserted.
C21_Witness ==
    /\ ScenarioC
    /\ Called("queueForReview")
    /\ Len(review_queue) = 1
    /\ review_queue[1].reason = "no_candidates"
    /\ Len(match_log) = 1

\* ---------------------------------------------------------- retry next cycle

\* C22: when a run whose Changes raised no error is done and has left a
\* violation of its batch in the review queue for want of candidates, the
\* diff of the same batch against the state table, which is what the next
\* run on that batch computes, holds a Change for that violation, so that
\* the matcher is invoked for it again.
C22_RetryNextCycle ==
    (/\ syncType = "violations"
     /\ pc = "done"
     /\ run.diffCalls = 1
     /\ run.errors = 0)
    => \A n \in DOMAIN review_queue :
          (/\ review_queue[n].reason = "no_candidates"
           /\ review_queue[n].status = "pending"
           /\ \E m \in DOMAIN run.changes :
                 run.changes[m].externalId = review_queue[n].external_id)
          => LET changes == diffViolations(run.input, violation_state)
             IN \E m \in DOMAIN changes :
                   changes[m].externalId = review_queue[n].external_id

\* ------------------------------------------------------------ new violations

\* C23: the per-Change action of a new violation has ended at once, with no
\* call awaited and nothing thrown, and once the run is done the state table
\* holds the violation's row with its status and no matched ticket.
C23_NewViolationsStateOnly ==
    (/\ syncType = "violations"
     /\ chg.caller = "driver"
     /\ ChangeOfChg.isNew)
    => /\ pc \in AfterChangePcs
       /\ chg.calls = <<>>
       /\ ~chg.threw /\ ~chg.returned
       /\ pc = "done" =>
             /\ chg.key \in DOMAIN violation_state
             /\ violation_state[chg.key].violation_status = ChangeOfChg.newStatus
             /\ violation_state[chg.key].matched_ticket_id = NullId

\* A live run on a table that held another violation is done, and its last
\* Change was a new violation.
C23_Witness ==
    /\ syncType = "violations"
    /\ config.ticketUpdatesEnabled
    /\ chg.caller = "driver"
    /\ ChangeOfChg.isNew
    /\ pc = "done"
    /\ chg.key \in DOMAIN violation_state
    /\ chg.key \notin DOMAIN run.before

\* ---------------------------------------------------------- inspection policy

\* C24: in a live inspections run the per-Change action of every Change, new
\* or updated, first looks up the linked tickets; when the lookup has
\* answered, the action awaits one addTicketComment per linked ticket, in
\* their order, and nothing else, none when there is no ticket, and never
\* throws; the run counts as errors only the Changes whose lookup threw; and
\* when the run is done the state table holds the Change's new result.
C24_InspectionPolicy ==
    (/\ syncType = "inspections"
     /\ ~dryRunTickets
     /\ chg.caller = "driver")
    => /\ pc \in AfterChangePcs =>
             /\ chg.calls # <<>>
             /\ chg.calls[1] = "findTicketsByCaseNo"
             /\ chg.threw => Len(chg.calls) = 1
             /\ ~chg.threw =>
                   /\ Len(chg.calls) = 1 + Len(chg.tickets)
                   /\ \A i \in 2..Len(chg.calls) : chg.calls[i] = "addTicketComment"
                   /\ chg.n = Len(chg.tickets) + 1
                   /\ \A i \in DOMAIN chg.commented : chg.commented[i] \in Range(chg.tickets)
       /\ run.errors = run.thrown
       /\ pc = "done" =>
             /\ chg.key \in DOMAIN inspection_state
             /\ inspection_state[chg.key].result = ChangeOfChg.newResult

\* Scenario D: a known inspection with a new result and two linked tickets
\* got two comments, one per ticket, and the run is done.
C24_Witness ==
    /\ syncType = "inspections"
    /\ chg.caller = "driver"
    /\ ~ChangeOfChg.isNew
    /\ chg.tickets = <<1, 2>>
    /\ chg.commented = <<1, 2>>
    /\ chg.calls = <<"findTicketsByCaseNo", "addTicketComment", "addTicketComment">>
    /\ pc = "done"
    /\ run.errors = 0

\* ------------------------------------------------------------- bulk import

\* C25: in a live initial import a processing batch has at most 1000 records
\* and an API batch at most 100, no bulkCreatePermits call carries more than
\* 100 permits, no record is submitted in two bulk calls, and whatever
\* conversions and bulk calls failed, the import that is done has gone
\* through the API batch of every record, has upserted every record, and
\* has counted as errors the records whose conversion or creation failed.
C25_BulkBatching ==
    /\ bulk.pc \in {"convertBatch", "bulkCreatePermits"} =>
          /\ Slices(bulk).processing \in 1..PROCESSING_BATCH_SIZE
          /\ Slices(bulk).api \in 1..BATCH_SIZE
          /\ bulk.pc = "bulkCreatePermits" => bulk.converted \in 1..Slices(bulk).api
    /\ bulk.largestCall <= BATCH_SIZE
    /\ ~bulk.twice
    /\ bulk.submittedTo <= bulk.handled
    /\ bulk.handled <= bulk.n
    /\ bulk.pc = "batchUpsert" => bulk.handled = bulk.upserted + Slices(bulk).processing
    /\ bulk.pc = "done" =>
          /\ bulk.handled = bulk.n
          /\ bulk.upserted = bulk.n
          /\ bulk.errors = bulk.conversionFailures + bulk.bulkFailures

\* An import of three processing batches is done after a batch with a
\* failed conversion and a bulk call that failed.
C25_Witness ==
    /\ bulk.pc = "done"
    /\ bulk.n = MaxImport
    /\ bulk.conversionFailures = 1
    /\ bulk.bulkFailures >= BATCH_SIZE - 1
    /\ bulk.largestCall = BATCH_SIZE
    /\ bulk.handled = bulk.n


\* C26: Scenario B.  The initial import of N permits by a live deployment
\* completes its RunLog with total = N, changed = the number of permits the
\* bulk calls created (those neither failed in conversion nor in a bulk call,
\* so at most N), errors = the number that failed conversion or bulk
\* creation, and no error message.
C26_ScenarioBAccounting ==
    bulk.pc = "done" =>
        /\ bulk.log.completed
        /\ bulk.log.total_records = bulk.n
        /\ bulk.log.changed_records = bulk.n - bulk.conversionFailures - bulk.bulkFailures
        /\ bulk.log.changed_records \in 0..bulk.n
        /\ bulk.log.errors = bulk.conversionFailures + bulk.bulkFailures
        /\ bulk.log.error_message = NullStr

C26_Witness ==
    /\ bulk.pc = "done" /\ bulk.n = 500
    /\ bulk.conversionFailures = 1 /\ bulk.bulkFailures = BATCH_SIZE
    /\ bulk.log.total_records = 500
    /\ bulk.log.changed_records = 500 - BATCH_SIZE - 1
    /\ bulk.log.errors = BATCH_SIZE + 1

\* The rows of old are rows of new, with the creation timestamp they had.
RowsKept(old, new) ==
    \A k \in DOMAIN old : k \in DOMAIN new /\ new[k].created_at = old[k].created_at

\* C27: a state table is a function of the identity key (one row per key);
\* no step removes a key from a state table; and a step that is a batch
\* upsert leaves, in every row that existed, the creation timestamp, the
\* matched ticket with its method and confidence, and the external permit
\* ids as they were.
C27_StateRowFrame ==
    [][/\ DOMAIN violation_state \subseteq DOMAIN violation_state'
       /\ DOMAIN inspection_state \subseteq DOMAIN inspection_state'
       /\ DOMAIN permit_state \subseteq DOMAIN permit_state'
       /\ run'.upserts > run.upserts =>
             /\ RowsKept(violation_state, violation_state')
             /\ RowsKept(inspection_state, inspection_state')
             /\ RowsKept(permit_state, permit_state')
             /\ \A k \in DOMAIN violation_state :
                    /\ violation_state'[k].matched_ticket_id = violation_state[k].matched_ticket_id
                    /\ violation_state'[k].match_method = violation_state[k].match_method
                    /\ violation_state'[k].match_confidence = violation_state[k].match_confidence
             /\ \A k \in DOMAIN permit_state :
                    /\ permit_state'[k].threefold_permit_id = permit_state[k].threefold_permit_id
                    /\ permit_state'[k].threefold_type_id = permit_state[k].threefold_type_id]_vars

\* A permit row created by an earlier run and linked to its external permit
\* went through the batch upsert of this run and kept both.
C27_Witness ==
    /\ syncType = "permits" /\ pc = "done" /\ run.upserts = 1
    /\ \E k \in DOMAIN permit_state :
          /\ permit_state[k].threefold_permit_id # NullId
          /\ permit_state[k].created_at < runs
          /\ permit_state[k].last_seen_at = runs

\* The calls that close a ticket or comment on it.
CloseOrComment == {"moveTicketToStep", "addTicketComment:closed", "addTicketComment:status"}

\* C28: redelivery is safe.  In a run that is the redelivery of the batch
\* of a run that threw to its caller, the Change the failed run processed
\* last does not get a close or comment call that the failed run already
\* made for it.
C28_RedeliverySafe ==
    (run.prior.caller = "driver" /\ chg.caller = "driver" /\ chg.key = run.prior.key) =>
        \A name \in CloseOrComment :
            ~(/\ \E n \in 1..Len(run.prior.calls) : run.prior.calls[n] = name
              /\ Called(name))

\* The attachments of the delivery that the handler runs a sync for.
ToRun ==
    {j \in 1..Len(delivery.attachments) :
        Pipeline(delivery.subject, delivery.attachments[j]) # "none"}

\* C29: within one delivery at most one attachment's run is in progress and
\* a run starts only when the runs started before it have returned; the
\* handler has answered 200 only when the run of every attachment it
\* processes has returned and none threw; and a run that throws is answered
\* with 500 in the same step, with no attachment after it started, then or
\* later.
C29_SequentialAck ==
    /\ Cardinality(delivery.running) <= 1
    /\ \A i, j \in delivery.started : i < j => i \in delivery.ended
    /\ delivery.started \subseteq ToRun
    /\ (delivery.status # 0) <=> (delivery.pc = "answered")
    /\ delivery.status = 200 =>
          /\ delivery.ended = ToRun
          /\ delivery.threw = {}
          /\ delivery.running = {}
    /\ delivery.status = 500 <=> delivery.threw # {}
    /\ \A t \in delivery.threw :
          /\ delivery.running = {}
          /\ \A j \in delivery.started : j <= t

\* The first attachment's run returned, the second one's threw, and the
\* third, a CSV the handler would have processed, was never started.
C29_Witness ==
    /\ delivery.status = 500
    /\ delivery.ended = {1}
    /\ delivery.threw = {2}
    /\ 3 \in ToRun
    /\ 3 \notin delivery.started

\* C30: a row of sync_log is opened only by the first step of a run, one
\* row per run, open, and with the state tables as they were; every run
\* whose INSERT returned opens one; a row is written only to complete it,
\* by the run that opened it, and a completed row is never written again;
\* and a run that ends, on whatever path, has completed its row unless the
\* completion write of its catch block failed.
C30_RunLogLifecycle ==
    [][/\ Len(sync_log') # Len(sync_log) =>
             /\ Len(sync_log') = Len(sync_log) + 1
             /\ pc \in {"idle", "done", "raised"}
             /\ runs' = runs + 1
             /\ run'.syncLogId = Len(sync_log')
             /\ sync_log'[Len(sync_log')] = createSyncLog(<<>>, syncType)[1]
             /\ tables' = tables
       /\ (runs' = runs + 1 /\ run'.raised = NullStr) => Len(sync_log') = Len(sync_log) + 1
       /\ \A id \in 1..Len(sync_log) :
             /\ id <= Len(sync_log')
             /\ sync_log[id].completed => sync_log'[id] = sync_log[id]
             /\ sync_log'[id] # sync_log[id] =>
                   /\ id = run.syncLogId
                   /\ sync_log'[id].completed
       /\ (/\ pc' \in {"done", "raised"}
           /\ pc \notin {"idle", "done", "raised"}
           /\ run'.syncLogId # 0
           /\ run'.raised # "completeSyncLog failed") =>
             sync_log'[run'.syncLogId].completed]_vars

\* The first run completed its row on the normal path; the second threw to
\* its caller and completed its own row with the error message.
C30_Witness ==
    /\ pc = "raised"
    /\ Len(sync_log) = 2
    /\ run.syncLogId = 2
    /\ sync_log[1].completed /\ sync_log[1].error_message = NullStr
    /\ sync_log[2].completed /\ sync_log[2].error_message # NullStr

\* C31: permit linkage is persisted.  When an incremental permits run with
\* updates enabled is done, the permit of the Change processed last, if its
\* create or update call returned and the Change did not throw, has a row in
\* permit_state that carries the external permit id that call returned and
\* a resolved type id.
C31_PermitLinkagePersisted ==
    (/\ syncType = "permits" /\ pc = "done" /\ run.path = "loop"
     /\ chg.caller = "driver" /\ ~chg.threw /\ chg.threefoldPermitId # NullId) =>
        /\ chg.key \in DOMAIN permit_state
        /\ permit_state[chg.key].threefold_permit_id = chg.threefoldPermitId
        /\ permit_state[chg.key].threefold_type_id # NullId

\* C32: the match cache is sticky.  No step changes or clears a stored
\* ticket id (the batch upsert and the later matcher calls included), and a
\* matcher call for a key with a stored ticket id whose cache read returns
\* ends with that read and returns that ticket id with method cached and
\* needsReview false.
C32_StickyCache ==
    [][/\ \A k \in DOMAIN violation_state :
             violation_state[k].matched_ticket_id # NullId =>
                 /\ k \in DOMAIN violation_state'
                 /\ violation_state'[k].matched_ticket_id = violation_state[k].matched_ticket_id
       /\ (/\ pc = "m_getMatchedTicketId"
           /\ chg.key \in DOMAIN violation_state
           /\ violation_state[chg.key].matched_ticket_id # NullId
           /\ faults' = faults) =>
             /\ chg'.returned
             /\ chg'.calls = <<"getMatchedTicketId">>
             /\ chg'.result = [ticketId |-> violation_state[chg.key].matched_ticket_id,
                               matchMethod |-> "cached", confidence |-> NullStr,
                               needsReview |-> FALSE]]_vars

\* A ticket the classifier matched in the first run went through that run's
\* upsert, and the matcher call of the second run returned it from the cache.
C32_Witness ==
    /\ runs = 2
    /\ chg.returned
    /\ chg.result.matchMethod = "cached"
    /\ chg.key \in DOMAIN violation_state
    /\ violation_state[chg.key].match_method = "llm"
    /\ violation_state[chg.key].last_seen_at >= 1
    /\ chg.result.ticketId = violation_state[chg.key].matched_ticket_id

\* C33: needsReview implies a queued item.  In the step in which the
\* matcher returns a result with needsReview = true, review_queue holds a
\* pending row for the violation's key.
C33_NeedsReviewQueued ==
    [][(~chg.returned /\ chg'.returned /\ chg'.result.needsReview) =>
          \E n \in 1..Len(review_queue') :
              /\ review_queue'[n].external_id = chg'.key
              /\ review_queue'[n].status = "pending"]_vars

\* C34: taxonomy entries are created once.  The external system never
\* holds more than one permit type by the name the records of the batch
\* carry.
C34_TaxonomyCreatedOnce == taxonomy.external <= 1

\* C37: review-queue non-duplication under interleaving.  With matcher
\* invocations for one identity key interleaved, the review queue never
\* holds two pending rows for that key.
C37_NoDuplicatePending ==
    \A m, n \in 1..Len(review_queue) :
        (/\ review_queue[m].external_id = review_queue[n].external_id
         /\ review_queue[m].status = "pending"
         /\ review_queue[n].status = "pending") => m = n

\* The record of the batch that the driver's deduplication keeps for key k,
\* and the signature the upsert stores for a record.
Winner(records, k) ==
    LET uniqueRecords ==
            CASE syncType = "violations" -> dedupViolations(records)
              [] syncType = "inspections" -> dedupInspections(records)
              [] OTHER -> dedupPermits(sortPermitsLatestFirst(records))
    IN uniqueRecords[CHOOSE n \in 1..Len(uniqueRecords) : RecordKey(uniqueRecords[n]) = k]

SignatureOf(r) ==
    CASE syncType = "violations" -> r.violationStatus
      [] syncType = "inspections" -> r.result
      [] OTHER -> generatePermitHash(r)

\* C35: state follows the input regardless of action outcome.  When an
\* incremental run has completed without a run-level exception, every
\* identity key of the input batch has a state row whose signature is the
\* signature of the record the deduplication keeps for that key.
C35_StateFollowsInput ==
    (pc = "done" /\ ~run.isInitialSync) =>
        \A n \in 1..Len(run.input) :
            LET k == RecordKey(run.input[n])
            IN /\ k \in DOMAIN StateTable
               /\ Signature(StateTable[k]) = SignatureOf(Winner(run.input, k))

\* An incremental run is done; the action of a Change for a stored key
\* threw, and the row of that key carries the new signature.
C35_Witness ==
    /\ pc = "done" /\ ~run.isInitialSync /\ LoopRun
    /\ run.errors = 1 /\ chg.caller = "driver" /\ chg.threw
    /\ chg.key \in DOMAIN run.before
    /\ Signature(StateTable[chg.key]) # Signature(run.before[chg.key])

\* C36: run counters partition the Changes.  When an incremental run has
\* completed without a run-level exception, its sync_log row is completed
\* with changed_records + errors equal to the number of Changes the diff
\* emitted, and the loop counted every Change once, as changed or as an
\* error.
C36_CountersPartition ==
    (pc = "done" /\ ~run.isInitialSync) =>
        /\ sync_log[run.syncLogId].completed
        /\ sync_log[run.syncLogId].changed_records + sync_log[run.syncLogId].errors
              = Len(run.changes)
        /\ sync_log[run.syncLogId].errors = run.thrown
        /\ sync_log[run.syncLogId].total_records = Len(run.input)

\* An incremental violations run is done with two Changes, one of them a
\* new record: one was counted as changed, the other threw.
C36_Witness ==
    /\ pc = "done" /\ ~run.isInitialSync /\ syncType = "violations"
    /\ Len(run.changes) = 2
    /\ \E n \in 1..2 : run.changes[n].isNew
    /\ sync_log[run.syncLogId].changed_records = 1
    /\ sync_log[run.syncLogId].errors = 1

\* C38: close action order.  The close comment is issued only by the step
\* that follows a step change that returned; a step change that fails ends
\* the Change without a comment and counts it as an error; a comment that
\* fails after the step change counts the Change as an error, not as
\* changed, with the step change already made.
C38_CloseOrder ==
    [][/\ (Len(chg'.calls) > Len(chg.calls)
           /\ chg'.calls[Len(chg'.calls)] = "addTicketComment:closed") =>
              /\ pc = "v_closeComment"
              /\ ~chg.threw
              /\ chg.calls # <<>>
              /\ chg.calls[Len(chg.calls)] = "moveTicketToStep"
       /\ (pc = "v_moveTicketToStep" /\ pc' = "v_closeComment") => faults' = faults
       /\ (pc = "v_moveTicketToStep" /\ faults' # faults) =>
              /\ chg'.threw
              /\ chg'.calls[Len(chg'.calls)] = "moveTicketToStep"
              /\ pc' \in {"v_change", "v_upsert"}
              /\ run'.errors = run.errors + 1 /\ run'.changed = run.changed
       /\ (pc = "v_closeComment" /\ faults' # faults) =>
              /\ chg'.threw
              /\ \E n \in 1..Len(chg'.calls) : chg'.calls[n] = "moveTicketToStep"
              /\ run'.errors = run.errors + 1 /\ run'.changed = run.changed]_vars

\* The step change of a close returned, its comment failed, and the run is
\* done with that Change counted as an error.
C38_Witness ==
    /\ pc = "done" /\ chg.caller = "driver" /\ chg.threw
    /\ Len(chg.calls) >= 2
    /\ chg.calls[Len(chg.calls)] = "addTicketComment:closed"
    /\ chg.calls[Len(chg.calls) - 1] = "moveTicketToStep"
    /\ run.errors = 1 /\ run.changed = Len(run.changes) - 1
    /\ sync_log[run.syncLogId].errors = 1

\* C39: inspection comment isolation.  A failed addTicketComment of an
\* inspection Change does not throw out of processInspectionChange and adds
\* nothing to the error counter; the loop goes on to the next linked ticket,
\* and after the last one the Change is counted as changed.
C39_CommentIsolation ==
    [][(pc = "i_addTicketComment" /\ faults' # faults) =>
          /\ ~chg'.threw
          /\ chg'.n = chg.n + 1
          /\ chg'.tickets = chg.tickets
          /\ run'.errors = run.errors /\ run'.thrown = run.thrown
          /\ IF chg.n < Len(chg.tickets)
             THEN pc' = "i_addTicketComment" /\ run' = run
             ELSE run'.changed = run.changed + 1 /\ pc' \in {"i_change", "i_upsert"}]_vars

\* The comment for the first of two linked tickets failed, the second ticket
\* got its comment, and the run is done without an error counted.
C39_Witness ==
    /\ syncType = "inspections" /\ pc = "done" /\ chg.caller = "driver"
    /\ chg.tickets = <<1, 2>> /\ chg.commented = <<2>>
    /\ chg.calls = <<"findTicketsByCaseNo", "addTicketComment", "addTicketComment">>
    /\ faults = 1
    /\ run.errors = 0 /\ run.changed = Len(run.changes)
    /\ sync_log[run.syncLogId].errors = 0

\* C40: new permits are not duplicated externally.  createPermit is issued
\* only for a Change with isNew, and only by the step that follows a
\* getPermitByNumber that returned no permit; a lookup that returned a permit
\* is followed by updatePermit of that permit; a createPermit that fails is
\* followed by updatePermit by permit number or leaves the try block; and a
\* Change without isNew goes from the conversion to updatePermit.
C40_CreateAfterLookup ==
    [][/\ (Len(chg'.calls) > Len(chg.calls) /\ chg'.calls[Len(chg'.calls)] = "createPermit") =>
              /\ pc = "p_createPermit"
              /\ CurrentChange.isNew
              /\ chg.calls[Len(chg.calls)] = "getPermitByNumber"
              /\ chg.target = NullId
       /\ (pc = "p_getPermitByNumber" /\ faults' = faults) =>
              /\ CurrentChange.isNew
              /\ pc' = IF chg'.target # NullId THEN "p_updatePermit" ELSE "p_createPermit"
       /\ (pc = "p_updatePermit" /\ faults' = faults /\ chg.target # NullId) =>
              chg'.threefoldPermitId = chg.target
       /\ (pc = "p_createPermit" /\ faults' # faults) =>
              \/ pc' = "p_updatePermit" /\ chg'.target = NullId /\ ~chg'.threw
              \/ pc' = "p_retryInitializePermitCaches" /\ chg.retryCount = 0
              \/ chg'.threw /\ run'.errors = run.errors + 1
       /\ (pc = "p_convertPermitRecordToApiRequest" /\ faults' = faults) =>
              pc' = IF CurrentChange.isNew THEN "p_getPermitByNumber" ELSE "p_updatePermit"]_vars

\* A new permit was looked up and not found, its create failed with an
\* already-exists error, the update by permit number returned, and the run
\* is done with the Change counted as changed.
C40_Witness ==
    /\ syncType = "permits" /\ pc = "done" /\ chg.caller = "driver" /\ ~chg.threw
    /\ chg.calls = <<"convertPermitRecordToApiRequest", "getPermitByNumber", "createPermit",
                     "updatePermit", "updatePermitThreefoldIds">>
    /\ faults = 1
    /\ run.errors = 0

====
